---- MODULE Spec2Model ----
(***************************************************************************)
(* Model of the blaster background service worker.                         *)
(*                                                                         *)
(*   QueryOrchestrator  (background/query-orchestrator.ts)  -> Spec        *)
(*   TabManager         (background/tab-manager.ts)         -> SpecRegistry *)
(*                                                                         *)
(* The service worker is single-threaded: every action below is one run    *)
(* of application code between two suspension points (an await, a timer,   *)
(* an inbound message).  The orchestrator receives its TabManager through  *)
(* its constructor; under Spec the call tabManager.ensureProviderTab is    *)
(* the awaited collaborator call (it settles with a tab id or rejects),    *)
(* and the TabManager's own state machine is checked under SpecRegistry.   *)
(***************************************************************************)
EXTENDS Integers, Sequences, FiniteSets, TLC

(***************************************************************************)
(* Bounds of the model                                                     *)
(***************************************************************************)
\* number of submitQuery calls
MaxQueries == 1
\* number of RESPONSE_RECEIVED / RESPONSE_ERROR messages handled
MaxMsgs == 2
\* wall-clock time that passes in one round of the readiness poll loop
\* (setTimeout fires no earlier than the poll interval, possibly later)
TimerDelayMs == 15000
\* number of browser tabs that ever exist
MaxTabs == 3
\* number of ensureProviderTab calls
MaxCalls == 2
\* number of lifecycle events the browser raises
MaxEvents == 3
\* events raised and calls made, together
MaxStimuli == 3
\* SUBMIT_QUERY messages one adapter receives
MaxRequests == 2
\* how long after it was set a timer of the adapter fires
AdapterDelayMs == 2500
\* submitQuery calls whose history writes may overlap
MaxSaves == 2
\* listeners given to onSessionUpdate
MaxListeners == 2
\* messages handed to MessageHandler.handleMessage
MaxInbound == 2
\* characters of a pattern, patterns of a provider, characters of an
\* address, address tests
MaxPatternLen == 2
MaxPatterns == 2
MaxUrlLen == 3
MaxTests == 1

(***************************************************************************)
(* Program constants                                                       *)
(***************************************************************************)
\* waitForTabReady(tabId, providerId, timeout = 30000)
TimeoutMs == 30000
\* setTimeout(resolve, 500)
PollIntervalMs == 500
\* queries.slice(0, 100)
QueryHistoryLimit == 100
\* base-adapter.ts: waitForButtonEnabled(button, timeout = 5000)
ButtonTimeoutMs == 5000
\* base-adapter.ts: waitForElement(selectors.loadingIndicatorSelector, 5000)
LoadingTimeoutMs == 5000
\* base-adapter.ts: waitForResponse(timeoutMs = 60000)
ResponseTimeoutMs == 60000
\* base-adapter.ts: Math.min(30000, ...)
MaxPollTimeMs == 30000
\* base-adapter.ts: the longest sleep of the adapter, sleep(1000)
LongestSleepMs == 1000

\* type ProviderId (the model keeps two of the three providers)
Providers == {"chatgpt", "claude"}

\* the provider lists submitQuery is called with
TargetSets == {{}, {"chatgpt"}, {"chatgpt", "claude"}}

\* ids that generateId() never returned: a stray message names one of them
StrayIds == {0}

\* QueryResponse.error is optional
Undefined == "undefined"

\* payload.newChat of a SUBMIT_QUERY message (newChat?: boolean)
NewChatFlags == {Undefined, "true"}

\* payloads of the inbound result messages
Texts == {"Response 1"}
ErrorPayloads == {"Provider error"}

\* values a leg can see thrown: Error objects and a rejected string
Err(m) == [isError |-> TRUE, message |-> m]
NonErr(m) == [isError |-> FALSE, message |-> m]
EnsureRejections == {Err("Failed to create tab"), NonErr("String error")}
ForwardRejections == {Err("Tab communication failed")}
NotReadyError(p) == Err("Tab not ready after timeout")

VARIABLES
    \* ---- QueryOrchestrator ----
    activeSessions,   \* Map<string, QuerySession>
    nextId,           \* ids handed out by generateId()
    submits,          \* the running / settled submitQuery calls
    legs,             \* the per-provider async tasks of providers.map
    storage,          \* chrome.storage.local
    savers,           \* saveResponseToHistory calls nobody awaits
    sessionUpdates,   \* SESSION_UPDATE broadcasts per query id
    msgCount,         \* result messages handled so far
    lastCall,         \* the last result message handled
    sessionListeners, \* the array of listeners onSessionUpdate pushed
    listenerCalls,    \* per listener, the sessions it was called with
    unsubscribed,     \* the listeners whose unsubscribe function was called
    \* ---- TabManager ----
    tabs,             \* Map<ProviderId, ManagedTab>
    browser,          \* the browser's tabs: handle -> address
    calls,            \* ensureProviderTab calls
    events,           \* lifecycle events raised, not yet dispatched
    pings,            \* pingTab calls started by onTabUpdated
    eventCount,       \* lifecycle events raised so far
    lastReturn,       \* handle returned by the latest undisturbed ensure
    \* ---- provider adapter (content script) ----
    requests,         \* the handleSubmitQuery calls of the adapter
    emitted,          \* messages the adapter sent with chrome.runtime.sendMessage
    \* ---- MessageHandler ----
    inbox,            \* the handleMessage calls, one record per message
    ratingStore,      \* the keys ratings and stats of chrome.storage.local
    \* ---- provider directory and the address test of onTabUpdated ----
    urlPatterns,      \* config.urlPatterns of the provider under test
    isMatch           \* the addresses tested and what the test returned

lsVars == <<sessionListeners, listenerCalls, unsubscribed>>
orchVars == <<activeSessions, nextId, submits, legs, storage, savers,
              sessionUpdates, msgCount, lastCall, lsVars>>
regVars == <<tabs, browser, calls, events, pings, eventCount, lastReturn>>
adVars == <<requests, emitted>>
\* what no method of the QueryOrchestrator touches
routerVars == <<inbox, ratingStore>>
patVars == <<urlPatterns, isMatch>>
outsideOrch == <<regVars, adVars, routerVars, patVars>>
vars == <<orchVars, regVars, adVars, routerVars, patVars>>

(***************************************************************************)
(* QueryOrchestrator: data                                                 *)
(***************************************************************************)
\* handleResponseReceived builds { queryId, providerId, text, durationMs }
SuccessResponse(q, p, t) ==
    [queryId |-> q, providerId |-> p, text |-> t, error |-> Undefined]

\* handleResponseError / the leg's catch build { ..., text: '', error }
ErrorResponse(q, p, e) ==
    [queryId |-> q, providerId |-> p, text |-> "", error |-> e]

\* a catch that reports whatever was thrown
ErrorMessageLeaks(x) == x.message

\* error instanceof Error ? error.message : 'Unknown error'
ErrorMessage(x) == IF x.isError THEN x.message ELSE "Unknown error"

\* the truthiness test of (r) => r?.error
Truthy(e) == e # Undefined /\ e # ""

\* array.splice(i, 1), and the deletion from a Map kept as a list
RemoveAt(t, i) == [j \in 1..(Len(t) - 1) |-> IF j < i THEN t[j] ELSE t[j + 1]]

\* the functions given to onSessionUpdate; "once" calls the unsubscribe
\* function it was given when it is called
ListenerIds == {"f", "g", "once"}
SelfUnsubscribing == {"once"}

IndexOf(list, l) ==
    LET hits == {i \in DOMAIN list : list[i] = l}
    IN  IF hits = {} THEN 0 ELSE CHOOSE i \in hits : \A j \in hits : i <= j

\* const index = this.sessionListeners.indexOf(listener);
\* if (index > -1) this.sessionListeners.splice(index, 1)
Unsubscribed(list, l) ==
    IF IndexOf(list, l) = 0 THEN list ELSE RemoveAt(list, IndexOf(list, l))

\* for (const listener of this.sessionListeners) listener(session): the
\* array iterator reads the element at its index as long as the index is
\* below the length the array has then; st is [list, calls, unsub]
RECURSIVE Walk(_, _, _)
Walk(st, q, i) ==
    IF i > Len(st.list) THEN st
    ELSE LET l == st.list[i]
             called == [st EXCEPT !.calls[l] = Append(@, q)]
         IN  IF l \in SelfUnsubscribing
             THEN Walk([called EXCEPT !.list = Unsubscribed(@, l),
                                      !.unsub = @ \cup {l}], q, i + 1)
             ELSE Walk(called, q, i + 1)

\* n calls of notifySessionUpdate(session), one after the other
RECURSIVE NotifyTimes(_, _, _)
NotifyTimes(st, q, n) == IF n = 0 THEN st ELSE NotifyTimes(Walk(st, q, 1), q, n - 1)

Notified(q, n) ==
    LET st == NotifyTimes([list |-> sessionListeners, calls |-> listenerCalls,
                           unsub |-> unsubscribed], q, n)
    IN  /\ sessionListeners' = st.list
        /\ listenerCalls' = st.calls
        /\ unsubscribed' = st.unsub

NewSession(ps) == [providers |-> ps, responses |-> << >>, status |-> "in-progress"]

\* a write that leaves a response the provider already has
PutResponseKeepsFirst(s, p, r) ==
    [s EXCEPT !.responses =
        [k \in (DOMAIN s.responses) \cup {p} |->
            IF k \in DOMAIN s.responses THEN s.responses[k] ELSE r]]

\* session.responses[providerId] = response
PutResponse(s, p, r) ==
    [s EXCEPT !.responses =
        [k \in (DOMAIN s.responses) \cup {p} |->
            IF k = p THEN r ELSE s.responses[k]]]

AllReceived(s) == \A p \in s.providers : p \in DOMAIN s.responses
HasErrors(s) == \E k \in DOMAIN s.responses : Truthy(s.responses[k].error)

\* checkSessionComplete: the session afterwards
CheckSessionComplete(s) ==
    IF AllReceived(s)
    THEN [s EXCEPT !.status = IF HasErrors(s) THEN "error" ELSE "completed"]
    ELSE s

\* checkSessionComplete: the notifySessionUpdate calls it makes
CheckNotifies(s) == IF AllReceived(s) THEN 1 ELSE 0

\* queries.unshift(query); queries.slice(0, 100)
Prepend(x, list) ==
    LET all == <<x>> \o list
    IN  IF Len(all) > QueryHistoryLimit THEN SubSeq(all, 1, QueryHistoryLimit) ELSE all

\* probed: the tab whose PING answer let waitForTabReady return
\* newChat: the second argument ensureProviderTab was called with
NewLeg == [pc |-> "ensure", tabId |-> 0, elapsed |-> 0, thrown |-> << >>,
           forwarded |-> FALSE, snap |-> << >>, probed |-> 0, newChat |-> FALSE]

(***************************************************************************)
(* QueryOrchestrator: submitQuery                                          *)
(***************************************************************************)
Registered == DOMAIN activeSessions
Session(q) == activeSessions[q]
Leg(q, p) == legs[q][p]
HasLeg(q, p) == q \in DOMAIN legs /\ p \in DOMAIN legs[q]

\* lines 15-31: build the query and the session, register it, start
\* saveQueryToHistory (its first storage read is now in flight)
SubmitQueryUpTo(n, ps, flag) ==
    /\ nextId < n
    /\ LET q == nextId + 1
       IN  /\ nextId' = q
           /\ activeSessions' = activeSessions @@ (q :> NewSession(ps))
           /\ submits' = submits @@ (q :> [pc |-> "getQueries", local |-> << >>,
                                            stats |-> 0, newChat |-> flag])
           /\ sessionUpdates' = sessionUpdates @@ (q :> 0)
           /\ UNCHANGED lsVars
           /\ legs' = legs @@ (q :> << >>)
    /\ UNCHANGED <<storage, savers, msgCount, lastCall>>
    /\ UNCHANGED outsideOrch

SubmitQuery(ps, flag) == SubmitQueryUpTo(MaxQueries, ps, flag)

\* saveQueryToHistory: chrome.storage.local.get('queries') resolves
SaveQueryGet(q) ==
    /\ q \in DOMAIN submits /\ submits[q].pc = "getQueries"
    /\ submits' = [submits EXCEPT ![q].pc = "setQueries",
                                  ![q].local = Prepend(q, storage.queries)]
    /\ UNCHANGED <<activeSessions, nextId, legs, storage, savers, sessionUpdates, lsVars,
                   msgCount, lastCall>>
    /\ UNCHANGED outsideOrch

\* a saveQueryToHistory that goes on to the stats without writing the list
SaveQuerySetSkipped(q) ==
    /\ q \in DOMAIN submits /\ submits[q].pc = "setQueries"
    /\ submits' = [submits EXCEPT ![q].pc = "getStats"]
    /\ UNCHANGED <<activeSessions, nextId, legs, storage, savers, sessionUpdates, lsVars,
                   msgCount, lastCall>>
    /\ UNCHANGED outsideOrch

\* saveQueryToHistory: set({queries}) resolves, get('stats') is issued
SaveQuerySet(q) ==
    /\ q \in DOMAIN submits /\ submits[q].pc = "setQueries"
    /\ storage' = [storage EXCEPT !.queries = submits[q].local]
    /\ submits' = [submits EXCEPT ![q].pc = "getStats"]
    /\ UNCHANGED <<activeSessions, nextId, legs, savers, sessionUpdates, lsVars, msgCount, lastCall>>
    /\ UNCHANGED outsideOrch

\* saveQueryToHistory: get('stats') resolves; stats.totalQueries++
SaveStatsGet(q) ==
    /\ q \in DOMAIN submits /\ submits[q].pc = "getStats"
    /\ submits' = [submits EXCEPT ![q].pc = "setStats",
                                  ![q].stats = storage.totalQueries + 1]
    /\ UNCHANGED <<activeSessions, nextId, legs, storage, savers, sessionUpdates, lsVars,
                   msgCount, lastCall>>
    /\ UNCHANGED outsideOrch

\* saveQueryToHistory returns; lines 34-60: notify, start one leg per
\* provider (each runs up to its first await, inside ensureProviderTab),
\* Promise.all(submissions).then(check), return session.
\* Promise.all([]) is already resolved: its callback runs in the same turn.
\* handleSubmitQuery passed payload.text and payload.providers, not
\* payload.newChat; the legs call ensureProviderTab(providerId), whose
\* newChat parameter then takes its default, false.
EnsureArg(flag) == FALSE

LaunchLegs(q) ==
    /\ q \in DOMAIN submits /\ submits[q].pc = "setStats"
    /\ storage' = [storage EXCEPT !.totalQueries = submits[q].stats]
    /\ submits' = [submits EXCEPT ![q].pc = "resolved"]
    /\ LET s == Session(q)
           none == s.providers = {}
       IN  /\ legs' = [legs EXCEPT ![q] =
                          [p \in s.providers |->
                              [NewLeg EXCEPT !.newChat = EnsureArg(submits[q].newChat)]]]
           /\ activeSessions' = [activeSessions EXCEPT ![q] =
                                    IF none THEN CheckSessionComplete(s) ELSE s]
           /\ sessionUpdates' = [sessionUpdates EXCEPT ![q] =
                                    @ + 1 + (IF none THEN CheckNotifies(s) ELSE 0)]
           /\ Notified(q, 1 + (IF none THEN CheckNotifies(s) ELSE 0))
    /\ UNCHANGED <<nextId, savers, msgCount, lastCall>>
    /\ UNCHANGED outsideOrch

\* a chrome.storage.local call of saveQueryToHistory rejects: nothing in
\* submitQuery catches it, the promise submitQuery returned rejects
SaveQueryFails(q) ==
    /\ q \in DOMAIN submits
    /\ submits[q].pc \in {"getQueries", "setQueries", "getStats", "setStats"}
    /\ submits' = [submits EXCEPT ![q].pc = "rejected"]
    /\ UNCHANGED <<activeSessions, nextId, legs, storage, savers, sessionUpdates, lsVars,
                   msgCount, lastCall>>
    /\ UNCHANGED outsideOrch

(***************************************************************************)
(* QueryOrchestrator: one leg (the async arrow function of providers.map)  *)
(***************************************************************************)
\* catch (error) { ...; session.responses[providerId] = errorResponse;
\*                 await this.saveResponseToHistory(errorResponse)  <- suspended here
Catch(q, p, x) ==
    /\ legs' = [legs EXCEPT ![q][p].pc = "catchGet", ![q][p].thrown = <<x>>,
                            ![q][p].elapsed = 0]
    /\ activeSessions' = [activeSessions EXCEPT ![q] =
                             PutResponse(@, p, ErrorResponse(q, p, ErrorMessage(x)))]
    /\ UNCHANGED <<nextId, submits, storage, savers, sessionUpdates, lsVars, msgCount, lastCall>>
    /\ UNCHANGED outsideOrch

\* the leg's promise fulfils; when it was the last one, Promise.all fulfils
\* and its callback runs checkSessionComplete before any other handler.
\* n: notifySessionUpdate calls the leg makes before it returns
SettleLeg(q, p, n) ==
    LET L == [legs EXCEPT ![q][p].pc = "done", ![q][p].snap = << >>]
        allDone == \A k \in DOMAIN L[q] : L[q][k].pc = "done"
        s == Session(q)
    IN  /\ legs' = L
        /\ activeSessions' = [activeSessions EXCEPT ![q] =
                                 IF allDone THEN CheckSessionComplete(s) ELSE s]
        /\ sessionUpdates' = [sessionUpdates EXCEPT ![q] =
                                 @ + n + (IF allDone THEN CheckNotifies(s) ELSE 0)]
        /\ Notified(q, n + (IF allDone THEN CheckNotifies(s) ELSE 0))

\* ensureProviderTab resolves with a tab id; waitForTabReady starts and
\* sends its first PING
EnsureResolves(q, p, h) ==
    /\ HasLeg(q, p) /\ Leg(q, p).pc = "ensure"
    /\ legs' = [legs EXCEPT ![q][p].pc = "ping", ![q][p].tabId = h]
    /\ UNCHANGED <<activeSessions, nextId, submits, storage, savers, sessionUpdates, lsVars,
                   msgCount, lastCall>>
    /\ UNCHANGED outsideOrch

\* ensureProviderTab rejects
EnsureRejects(q, p, x) ==
    /\ HasLeg(q, p) /\ Leg(q, p).pc = "ensure"
    /\ Catch(q, p, x)

\* a loop that returns on any answer to the PING
AfterProbeUnchecked(isReady) == "forward"

\* if (response?.isReady) return;  otherwise on to the sleep
AfterProbe(isReady) == IF isReady THEN "forward" ELSE "sleep"

\* the PING is answered. response?.isReady: return from waitForTabReady and
\* send SUBMIT_QUERY to the tab; otherwise sleep
ProbeReplies(q, p, isReady) ==
    /\ HasLeg(q, p) /\ Leg(q, p).pc = "ping"
    /\ LET out == AfterProbe(isReady) = "forward"
       IN  legs' = [legs EXCEPT ![q][p].pc = AfterProbe(isReady),
                                ![q][p].forwarded = out,
                                ![q][p].probed = IF isReady THEN Leg(q, p).tabId ELSE @,
                                ![q][p].elapsed = IF out THEN 0 ELSE @]
    /\ UNCHANGED <<activeSessions, nextId, submits, storage, savers, sessionUpdates, lsVars,
                   msgCount, lastCall>>
    /\ UNCHANGED outsideOrch

\* the PING rejects: catch { /* Content script not ready yet */ }, sleep
ProbeThrows(q, p) ==
    /\ HasLeg(q, p) /\ Leg(q, p).pc = "ping"
    /\ legs' = [legs EXCEPT ![q][p].pc = "sleep"]
    /\ UNCHANGED <<activeSessions, nextId, submits, storage, savers, sessionUpdates, lsVars,
                   msgCount, lastCall>>
    /\ UNCHANGED outsideOrch

\* the tab never answers this PING: the await never returns
ProbeHangs(q, p) ==
    /\ HasLeg(q, p) /\ Leg(q, p).pc = "ping"
    /\ legs' = [legs EXCEPT ![q][p].pc = "pingHung"]
    /\ UNCHANGED <<activeSessions, nextId, submits, storage, savers, sessionUpdates, lsVars,
                   msgCount, lastCall>>
    /\ UNCHANGED outsideOrch

\* a start time taken anew in every round never reaches the timeout
ElapsedRestarted(elapsed) == 0

\* Date.now() - startTime, one sleep later (startTime is taken once,
\* before the loop)
ElapsedAfterSleep(elapsed) == elapsed + TimerDelayMs

\* while (Date.now() - startTime < timeout)
WithinTimeout(elapsed) == elapsed < TimeoutMs

\* the setTimeout of the loop fires: test the loop condition again, then
\* PING again or throw `Tab for ... not ready after ...ms`
TimerFires(q, p) ==
    /\ HasLeg(q, p) /\ Leg(q, p).pc = "sleep"
    /\ TimerDelayMs >= PollIntervalMs
    /\ LET e == ElapsedAfterSleep(Leg(q, p).elapsed)
       IN  IF WithinTimeout(e)
           THEN /\ legs' = [legs EXCEPT ![q][p].pc = "ping", ![q][p].elapsed = e]
                /\ UNCHANGED <<activeSessions, nextId, submits, storage, savers,
                               sessionUpdates, lsVars, msgCount, lastCall>>
                /\ UNCHANGED outsideOrch
           ELSE Catch(q, p, NotReadyError(p))

\* chrome.tabs.sendMessage(tabId, SUBMIT_QUERY) resolves: the leg is done
ForwardResolves(q, p) ==
    /\ HasLeg(q, p) /\ Leg(q, p).pc = "forward"
    /\ SettleLeg(q, p, 0)
    /\ UNCHANGED <<nextId, submits, storage, savers, msgCount, lastCall>>
    /\ UNCHANGED outsideOrch

\* chrome.tabs.sendMessage(tabId, SUBMIT_QUERY) rejects
ForwardRejects(q, p, x) ==
    /\ HasLeg(q, p) /\ Leg(q, p).pc = "forward"
    /\ Catch(q, p, x)

\* catch block, saveResponseToHistory: get('responses') resolves; push
CatchSaveGet(q, p) ==
    /\ HasLeg(q, p) /\ Leg(q, p).pc = "catchGet"
    /\ legs' = [legs EXCEPT ![q][p].pc = "catchSet",
                            ![q][p].snap = Append(storage.responses, Session(q).responses[p])]
    /\ UNCHANGED <<activeSessions, nextId, submits, storage, savers, sessionUpdates, lsVars,
                   msgCount, lastCall>>
    /\ UNCHANGED outsideOrch

\* catch block: set({responses}) resolves; notifySessionUpdate; the leg is done
CatchSaveSet(q, p) ==
    /\ HasLeg(q, p) /\ Leg(q, p).pc = "catchSet"
    /\ storage' = [storage EXCEPT !.responses = Leg(q, p).snap]
    /\ SettleLeg(q, p, 1)
    /\ UNCHANGED <<nextId, submits, savers, msgCount, lastCall>>
    /\ UNCHANGED outsideOrch

\* catch block: a chrome.storage.local call rejects, the leg's promise
\* rejects, Promise.all rejects and its then-callback never runs
CatchSaveFails(q, p) ==
    /\ HasLeg(q, p) /\ Leg(q, p).pc \in {"catchGet", "catchSet"}
    /\ legs' = [legs EXCEPT ![q][p].pc = "rejected", ![q][p].snap = << >>]
    /\ UNCHANGED <<activeSessions, nextId, submits, storage, savers, sessionUpdates, lsVars,
                   msgCount, lastCall>>
    /\ UNCHANGED outsideOrch

(***************************************************************************)
(* QueryOrchestrator: handleResponseReceived / handleResponseError         *)
(***************************************************************************)
\* a handler that starts a session for an id it does not know
RecordResultUpserts(q, p, r) ==
    LET known == q \in Registered
        s0 == IF known THEN Session(q) ELSE NewSession({p})
        s == PutResponse(s0, p, r)
    IN  /\ activeSessions' = [k \in Registered \cup {q} |->
                                 IF k = q THEN CheckSessionComplete(s) ELSE activeSessions[k]]
        /\ savers' = savers \cup
               {[id |-> msgCount + 1, response |-> r, pc |-> "get", snap |-> << >>]}
        /\ sessionUpdates' = [k \in Registered \cup {q} |->
                                 IF k = q
                                 THEN (IF known THEN sessionUpdates[q] ELSE 0) + 1 + CheckNotifies(s)
                                 ELSE sessionUpdates[k]]
        /\ Notified(q, 1 + CheckNotifies(s))

\* if (!session) return; session.responses[providerId] = response;
\* this.saveResponseToHistory(response) (not awaited: its storage read is
\* in flight when the handler returns); notifySessionUpdate;
\* checkSessionComplete
RecordResult(q, p, r) ==
    IF q \notin Registered
    THEN UNCHANGED <<activeSessions, savers, sessionUpdates, lsVars>>
    ELSE LET s == PutResponse(Session(q), p, r)
         IN  /\ activeSessions' = [activeSessions EXCEPT ![q] = CheckSessionComplete(s)]
             /\ savers' = savers \cup
                    {[id |-> msgCount + 1, response |-> r, pc |-> "get", snap |-> << >>]}
             /\ sessionUpdates' = [sessionUpdates EXCEPT ![q] = @ + 1 + CheckNotifies(s)]
             /\ Notified(q, 1 + CheckNotifies(s))

Handled(kind, q, p) ==
    /\ msgCount < MaxMsgs
    /\ msgCount' = msgCount + 1
    /\ lastCall' = [kind |-> kind, known |-> q \in Registered, providerId |-> p]
    /\ UNCHANGED <<nextId, submits, legs, storage>>
    /\ UNCHANGED outsideOrch

HandleResponseReceived(q, p, t) ==
    /\ Handled("RESPONSE_RECEIVED", q, p)
    /\ RecordResult(q, p, SuccessResponse(q, p, t))

HandleResponseError(q, p, e) ==
    /\ Handled("RESPONSE_ERROR", q, p)
    /\ RecordResult(q, p, ErrorResponse(q, p, e))

\* saveResponseToHistory: get('responses') resolves; responses.push(response)
SaverGet(sv) ==
    /\ sv \in savers /\ sv.pc = "get"
    /\ savers' = (savers \ {sv}) \cup
           {[sv EXCEPT !.pc = "set", !.snap = Append(storage.responses, sv.response)]}
    /\ UNCHANGED <<activeSessions, nextId, submits, legs, storage, sessionUpdates, lsVars,
                   msgCount, lastCall>>
    /\ UNCHANGED outsideOrch

\* saveResponseToHistory: set({responses}) resolves
SaverSet(sv) ==
    /\ sv \in savers /\ sv.pc = "set"
    /\ storage' = [storage EXCEPT !.responses = sv.snap]
    /\ savers' = savers \ {sv}
    /\ UNCHANGED <<activeSessions, nextId, submits, legs, sessionUpdates, lsVars, msgCount, lastCall>>
    /\ UNCHANGED outsideOrch

\* saveResponseToHistory: a storage call rejects (an unhandled rejection)
SaverFails(sv) ==
    /\ sv \in savers
    /\ savers' = savers \ {sv}
    /\ UNCHANGED <<activeSessions, nextId, submits, legs, storage, sessionUpdates, lsVars,
                   msgCount, lastCall>>
    /\ UNCHANGED outsideOrch

(***************************************************************************)
(* Initial state and the orchestrator's specification                      *)
(***************************************************************************)
TabIds == 1..MaxTabs

\* the tab ids the injected TabManager resolves with under Spec
MockTabIds == {1}

InitOrch ==
    /\ activeSessions = << >>
    /\ nextId = 0
    /\ submits = << >>
    /\ legs = << >>
    /\ storage = [queries |-> << >>, responses |-> << >>, totalQueries |-> 0]
    /\ savers = {}
    /\ sessionUpdates = << >>
    /\ msgCount = 0
    /\ lastCall = [kind |-> "none", known |-> FALSE, providerId |-> "none"]
    /\ sessionListeners = << >>
    /\ listenerCalls = [l \in ListenerIds |-> << >>]
    /\ unsubscribed = {}

InitReg ==
    /\ tabs = << >>
    /\ browser = [h \in TabIds |-> "none"]
    /\ calls = << >>
    /\ events = << >>
    /\ pings = {}
    /\ eventCount = 0
    /\ lastReturn = [p \in Providers |-> 0]

InitAdapter ==
    /\ requests = << >>
    /\ emitted = << >>

\* no stats yet: the key is written by the first query or the first rating
NoStats == [shape |-> "absent", totalRatings |-> 0,
            up |-> [p \in Providers |-> 0], down |-> [p \in Providers |-> 0]]

InitRouterVars ==
    /\ inbox = << >>
    /\ ratingStore = [ratings |-> << >>, stats |-> NoStats]

\* no provider directory under test, no address tested
InitNoPatterns ==
    /\ urlPatterns = << >>
    /\ isMatch = << >>

Init == InitOrch /\ InitReg /\ InitAdapter /\ InitRouterVars /\ InitNoPatterns

LegStep(q, p) ==
    \/ \E h \in MockTabIds : EnsureResolves(q, p, h)
    \/ \E x \in EnsureRejections : EnsureRejects(q, p, x)
    \/ \E isReady \in BOOLEAN : ProbeReplies(q, p, isReady)
    \/ ProbeThrows(q, p)
    \/ ProbeHangs(q, p)
    \/ TimerFires(q, p)
    \/ ForwardResolves(q, p)
    \/ \E x \in ForwardRejections : ForwardRejects(q, p, x)
    \/ CatchSaveGet(q, p)
    \/ CatchSaveSet(q, p)
    \/ CatchSaveFails(q, p)

SubmitStep(q) ==
    \/ SaveQueryGet(q)
    \/ SaveQuerySet(q)
    \/ SaveStatsGet(q)
    \/ LaunchLegs(q)
    \/ SaveQueryFails(q)

QueryIds == 1..MaxQueries

\* the query ids a sender of result messages can know: those submitQuery
\* has returned to its caller and put into SUBMIT_QUERY messages
HandedOutIds == {q \in DOMAIN submits : submits[q].pc = "resolved"}

Next ==
    \/ \E ps \in TargetSets, flag \in NewChatFlags : SubmitQuery(ps, flag)
    \/ \E q \in QueryIds : SubmitStep(q)
    \/ \E q \in QueryIds, p \in Providers : LegStep(q, p)
    \/ \E q \in HandedOutIds \cup StrayIds, p \in Providers, t \in Texts :
           HandleResponseReceived(q, p, t)
    \/ \E q \in HandedOutIds \cup StrayIds, p \in Providers, e \in ErrorPayloads :
           HandleResponseError(q, p, e)

\* Spec: the un-awaited history writes stay in flight; nothing the
\* orchestrator does afterwards reads their result
Spec == Init /\ [][Next]_vars

\* SpecHistory: the un-awaited history writes complete as well
NextHistory ==
    \/ Next
    \/ \E sv \in savers : SaverGet(sv) \/ SaverSet(sv) \/ SaverFails(sv)

SpecHistory == Init /\ [][NextHistory]_vars

\* SpecLive: timers fire and settled promises are continued
SpecLive == Spec /\ \A q \in QueryIds, p \in Providers : WF_vars(LegStep(q, p))

(***************************************************************************)
(* TabManager: data                                                        *)
(***************************************************************************)
\* PROVIDERS[p].baseUrl, as the browser writes an address without a path
BaseUrl(p) == IF p = "chatgpt" THEN "https://chatgpt.com/" ELSE "https://claude.ai/"

\* PROVIDERS[p].newChatUrl
NewChatUrl(p) == IF p = "chatgpt" THEN "https://chatgpt.com/" ELSE "https://claude.ai/new"

\* addresses a tab can show: the new-chat pages of the providers, which
\* their patterns match, and the base address of claude, which none matches
Addresses == {"https://chatgpt.com/", "https://claude.ai/new", "https://claude.ai/"}

\* config.urlPatterns.some((pattern) => regex.test(tab.url))
MatchesProvider(url, p) ==
    \/ p = "chatgpt" /\ url = "https://chatgpt.com/"
    \/ p = "claude" /\ url = "https://claude.ai/new"

\* Object.entries(PROVIDERS): the order the providers are tried in
ProviderOrder == <<"chatgpt", "claude">>

IsOpen(h) == browser[h] \notin {"none", "closed"}

\* this.tabs is a Map: a list of entries in insertion order
TabIndex(t, p) == {i \in DOMAIN t : t[i].providerId = p}
Tracked(t, p) == TabIndex(t, p) # {}
TabOf(t, p) == t[CHOOSE i \in TabIndex(t, p) : TRUE]
TrackedHandle(t, p) == IF Tracked(t, p) THEN TabOf(t, p).tabId ELSE 0

\* the entry objects that calls in flight hold in existingTab
HeldObjects(p) == {calls[c].ref : c \in {d \in DOMAIN calls : calls[d].provider = p}}

\* a new object is none of those: obj tells an entry a call still holds
\* from the entry that replaced it in the map
NewObject(p) == CHOOSE n \in 0..MaxCalls :
                    /\ n \notin HeldObjects(p)
                    /\ \A m \in 0..MaxCalls : m \notin HeldObjects(p) => n <= m

ManagedTab(p, h) == [providerId |-> p, tabId |-> h, isReady |-> FALSE,
                     isLoggedIn |-> FALSE, obj |-> NewObject(p)]

\* this.tabs.set(providerId, entry): in place for a key the map has
TabsSet(t, p, entry) ==
    IF Tracked(t, p)
    THEN [i \in DOMAIN t |-> IF t[i].providerId = p THEN entry ELSE t[i]]
    ELSE Append(t, entry)

\* a delete that leaves the entry in the map
TabsDeleteForgotten(t, p) == t

\* this.tabs.delete(providerId)
TabsDelete(t, p) ==
    IF Tracked(t, p) THEN RemoveAt(t, CHOOSE i \in TabIndex(t, p) : TRUE) ELSE t

\* managedTab.isReady = ...; managedTab.isLoggedIn = ... on the entry the
\* map holds for the provider now
SetFlags(t, p, st) ==
    [i \in DOMAIN t |->
        IF t[i].providerId = p
        THEN [t[i] EXCEPT !.isReady = st.isReady, !.isLoggedIn = st.isLoggedIn]
        ELSE t[i]]

\* an entry set before newTab.id is looked at
TrackCreatedUnchecked(t, p, id) == TabsSet(t, p, ManagedTab(p, id))

\* if (!newTab.id) throw ...; this.tabs.set(providerId, {tabId: newTab.id, ...})
\* id is 0 for a tab without an id
TrackCreated(t, p, id) == IF id = 0 THEN t ELSE TabsSet(t, p, ManagedTab(p, id))

\* existingTab.isReady = false, on the object the call read from the map
\* before its awaits: the map's entry only if the map still holds that object
MarkNotReady(t, p, ref) ==
    [i \in DOMAIN t |->
        IF t[i].providerId = p /\ t[i].obj = ref
        THEN [t[i] EXCEPT !.isReady = FALSE]
        ELSE t[i]]

\* what a content script answers to PING
PingAnswers == {[isReady |-> TRUE, isLoggedIn |-> TRUE],
                [isReady |-> FALSE, isLoggedIn |-> FALSE]}

\* the first provider, in the order of PROVIDERS, a pattern of which
\* matches the address; "none" when there is none
FirstMatch(url) ==
    LET hits == {i \in DOMAIN ProviderOrder : MatchesProvider(url, ProviderOrder[i])}
    IN  IF hits = {} THEN "none"
        ELSE ProviderOrder[CHOOSE i \in hits : \A j \in hits : i <= j]

OrchUnchanged == UNCHANGED <<orchVars, adVars, routerVars, patVars>>

(***************************************************************************)
(* The browser: tabs open, navigate and close; chrome raises the events    *)
(***************************************************************************)
\* what reached the TabManager from outside: events raised, calls made
Stimuli == eventCount + Len(calls)

FreeHandles == {h \in TabIds : browser[h] = "none"}
NextHandle == CHOOSE h \in FreeHandles : \A k \in FreeHandles : h <= k

\* a tab the extension got no event for (opened before the worker started)
OpenTab(url) ==
    /\ FreeHandles # {}
    /\ browser' = [browser EXCEPT ![NextHandle] = url]
    /\ UNCHANGED <<tabs, calls, events, pings, eventCount, lastReturn>>
    /\ OrchUnchanged

\* a tab finishes loading an address: chrome.tabs.onUpdated is raised
NavigationCompletes(h, url) ==
    /\ IsOpen(h)
    /\ eventCount < MaxEvents /\ Stimuli < MaxStimuli
    /\ browser' = [browser EXCEPT ![h] = url]
    /\ events' = Append(events, [kind |-> "updated", status |-> "complete",
                                  tabId |-> h, url |-> url])
    /\ eventCount' = eventCount + 1
    /\ UNCHANGED <<tabs, calls, pings, lastReturn>>
    /\ OrchUnchanged

\* a tab starts to load: chrome.tabs.onUpdated is raised with status loading
NavigationStarts(h) ==
    /\ IsOpen(h)
    /\ eventCount < MaxEvents /\ Stimuli < MaxStimuli
    /\ events' = Append(events, [kind |-> "updated", status |-> "loading",
                                  tabId |-> h, url |-> browser[h]])
    /\ eventCount' = eventCount + 1
    /\ UNCHANGED <<tabs, browser, calls, pings, lastReturn>>
    /\ OrchUnchanged

\* chrome.tabs.onUpdated is raised with a tab object that has no url
UpdateWithoutUrl(h) ==
    /\ IsOpen(h)
    /\ eventCount < MaxEvents /\ Stimuli < MaxStimuli
    /\ events' = Append(events, [kind |-> "updated", status |-> "complete",
                                  tabId |-> h, url |-> ""])
    /\ eventCount' = eventCount + 1
    /\ UNCHANGED <<tabs, browser, calls, pings, lastReturn>>
    /\ OrchUnchanged

\* a tab is closed: chrome.tabs.onRemoved is raised
CloseTab(h) ==
    /\ IsOpen(h)
    /\ eventCount < MaxEvents /\ Stimuli < MaxStimuli
    /\ browser' = [browser EXCEPT ![h] = "closed"]
    /\ events' = Append(events, [kind |-> "removed", status |-> "",
                                  tabId |-> h, url |-> ""])
    /\ eventCount' = eventCount + 1
    /\ UNCHANGED <<tabs, calls, pings, lastReturn>>
    /\ OrchUnchanged

(***************************************************************************)
(* TabManager: the lifecycle listeners                                     *)
(***************************************************************************)
\* a lifecycle listener ran: no ensure call in flight is undisturbed, and
\* the next call does not follow the previous one directly
Disturbed(cs) == [c \in DOMAIN cs |-> [cs[c] EXCEPT !.clean = FALSE]]
NoReturn == [p \in Providers |-> 0]

\* a listener that looks at neither changeInfo.status nor tab.url
CompletedUnchecked(e) == TRUE

\* the negation of: if (changeInfo.status !== 'complete' || !tab.url) return;
\* an absent tab.url is ""
Completed(e) == e.status = "complete" /\ e.url # ""

\* onTabUpdated(tabId, changeInfo, tab)
OnTabUpdated ==
    /\ events # << >> /\ Head(events).kind = "updated"
    /\ LET e == Head(events)
           p == FirstMatch(e.url)
       IN  IF ~Completed(e) \/ p = "none"
           THEN UNCHANGED <<tabs, pings>>
           ELSE /\ tabs' = TabsSet(tabs, p, ManagedTab(p, e.tabId))
                /\ pings' = pings \cup {[tabId |-> e.tabId, providerId |-> p]}
    /\ events' = Tail(events)
    /\ calls' = Disturbed(calls)
    /\ lastReturn' = NoReturn
    /\ UNCHANGED <<browser, eventCount>>
    /\ OrchUnchanged

\* for (const [providerId, managedTab] of this.tabs)
\*   if (managedTab.tabId === tabId) { this.tabs.delete(providerId); break; }
RemoveFirstWithHandle(t, h) ==
    LET hits == {i \in DOMAIN t : t[i].tabId = h}
    IN  IF hits = {} THEN t
        ELSE RemoveAt(t, CHOOSE i \in hits : \A j \in hits : i <= j)

\* onTabRemoved(tabId)
OnTabRemoved ==
    /\ events # << >> /\ Head(events).kind = "removed"
    /\ tabs' = RemoveFirstWithHandle(tabs, Head(events).tabId)
    /\ events' = Tail(events)
    /\ calls' = Disturbed(calls)
    /\ lastReturn' = NoReturn
    /\ UNCHANGED <<browser, pings, eventCount>>
    /\ OrchUnchanged

\* pingTab started by onTabUpdated: the tab answers
EventPingAnswered(pg, st) ==
    /\ pg \in pings
    /\ IsOpen(pg.tabId)
    /\ tabs' = SetFlags(tabs, pg.providerId, st)
    /\ pings' = pings \ {pg}
    /\ UNCHANGED <<browser, calls, events, eventCount, lastReturn>>
    /\ OrchUnchanged

\* pingTab started by onTabUpdated: sendMessage rejects (caught)
EventPingFails(pg) ==
    /\ pg \in pings
    /\ pings' = pings \ {pg}
    /\ UNCHANGED <<tabs, browser, calls, events, eventCount, lastReturn>>
    /\ OrchUnchanged

(***************************************************************************)
(* TabManager.ensureProviderTab(providerId, false), one action per await   *)
(***************************************************************************)
Finished == {"returned", "failed"}

InFlight(p) == {c \in DOMAIN calls : calls[c].provider = p /\ calls[c].pc \notin Finished}

\* the call is over: its locals are gone, its outcome stays
Settled(call, pc, h, msg) ==
    [call EXCEPT !.pc = pc, !.result = h, !.error = msg,
                 !.existing = 0, !.tabId = 0, !.clean = FALSE, !.ref = -1]

\* the call returns tabId; it followed the previous call directly if no
\* listener and no other call for the provider ran since it started
Return(c, h) ==
    /\ calls' = [calls EXCEPT ![c] = Settled(calls[c], "returned", h, "")]
    /\ lastReturn' = [lastReturn EXCEPT ![calls[c].provider] =
                          IF calls[c].clean THEN h ELSE 0]

Throw(c, msg) ==
    /\ calls' = [calls EXCEPT ![c] = Settled(calls[c], "failed", 0, msg)]
    /\ UNCHANGED lastReturn

\* a lookup that never finds the tracked entry
AfterLookupIgnored(found) == "query"

\* where the call goes after const existingTab = this.tabs.get(providerId)
AfterLookup(found) == IF found THEN "checkAlive" ELSE "query"

\* the call starts and runs to its first await
StartEnsure(p) ==
    /\ Len(calls) < MaxCalls /\ Stimuli < MaxStimuli
    /\ LET alone == InFlight(p) = {}
           call == [provider |-> p,
                    pc |-> AfterLookup(Tracked(tabs, p)),
                    existing |-> TrackedHandle(tabs, p),
                    tabId |-> 0, result |-> 0, created |-> 0,
                    stale |-> FALSE, error |-> "",
                    newChat |-> FALSE, ref |-> -1,
                    clean |-> alone,
                    prev |-> IF alone THEN lastReturn[p] ELSE 0]
       IN  calls' = Append([c \in DOMAIN calls |->
                               IF calls[c].provider = p
                               THEN [calls[c] EXCEPT !.clean = FALSE]
                               ELSE calls[c]], call)
    /\ lastReturn' = [lastReturn EXCEPT ![p] = 0]
    /\ UNCHANGED <<tabs, browser, events, pings, eventCount>>
    /\ OrchUnchanged

\* await chrome.tabs.get(existingTab.tabId) resolves: return the handle
TabGetResolves(c) ==
    /\ c \in DOMAIN calls /\ calls[c].pc = "checkAlive"
    /\ IsOpen(calls[c].existing)
    /\ Return(c, calls[c].existing)
    /\ UNCHANGED <<tabs, browser, events, pings, eventCount>>
    /\ OrchUnchanged

\* await chrome.tabs.get(...) rejects: this.tabs.delete(providerId), and
\* on to await chrome.tabs.query
TabGetRejects(c) ==
    /\ c \in DOMAIN calls /\ calls[c].pc = "checkAlive"
    /\ ~IsOpen(calls[c].existing)
    /\ tabs' = TabsDelete(tabs, calls[c].provider)
    /\ calls' = [calls EXCEPT ![c].pc = "query", ![c].stale = TRUE]
    /\ UNCHANGED <<browser, events, pings, eventCount, lastReturn>>
    /\ OrchUnchanged

\* the open tabs chrome.tabs.query({url: config.urlPatterns}) finds
Matching(p) == {h \in TabIds : IsOpen(h) /\ MatchesProvider(browser[h], p)}

\* the query found tabs: track existingTabs[0], then await its activation
QueryFinds(c, h) ==
    /\ c \in DOMAIN calls /\ calls[c].pc = "query"
    /\ h \in Matching(calls[c].provider)
    /\ tabs' = TabsSet(tabs, calls[c].provider, ManagedTab(calls[c].provider, h))
    /\ calls' = [calls EXCEPT ![c].pc = "activate", ![c].tabId = h]
    /\ UNCHANGED <<browser, events, pings, eventCount, lastReturn>>
    /\ OrchUnchanged

\* the query found nothing: await chrome.tabs.create
QueryFindsNone(c) ==
    /\ c \in DOMAIN calls /\ calls[c].pc = "query"
    /\ Matching(calls[c].provider) = {}
    /\ calls' = [calls EXCEPT ![c].pc = "create"]
    /\ UNCHANGED <<tabs, browser, events, pings, eventCount, lastReturn>>
    /\ OrchUnchanged

\* await chrome.tabs.update(tabId, {active: true}) resolves: send the ping
ActivateResolves(c) ==
    /\ c \in DOMAIN calls /\ calls[c].pc = "activate"
    /\ IsOpen(calls[c].tabId)
    /\ calls' = [calls EXCEPT ![c].pc = "ping"]
    /\ UNCHANGED <<tabs, browser, events, pings, eventCount, lastReturn>>
    /\ OrchUnchanged

\* await chrome.tabs.update(...) rejects, the tab is gone: the call rejects
ActivateRejects(c) ==
    /\ c \in DOMAIN calls /\ calls[c].pc = "activate"
    /\ ~IsOpen(calls[c].tabId)
    /\ Throw(c, "No tab with id")
    /\ UNCHANGED <<tabs, browser, events, pings, eventCount>>
    /\ OrchUnchanged

\* await this.pingTab(tabId, providerId): the tab answered
EnsurePingAnswered(c, st) ==
    /\ c \in DOMAIN calls /\ calls[c].pc = "ping"
    /\ IsOpen(calls[c].tabId)
    /\ tabs' = SetFlags(tabs, calls[c].provider, st)
    /\ Return(c, calls[c].tabId)
    /\ UNCHANGED <<browser, events, pings, eventCount>>
    /\ OrchUnchanged

\* await this.pingTab(...): sendMessage rejected, pingTab swallows it
EnsurePingFails(c) ==
    /\ c \in DOMAIN calls /\ calls[c].pc = "ping"
    /\ Return(c, calls[c].tabId)
    /\ UNCHANGED <<tabs, browser, events, pings, eventCount>>
    /\ OrchUnchanged

\* await chrome.tabs.create({url: config.baseUrl}) gives a tab with an id
CreateResolves(c) ==
    /\ c \in DOMAIN calls /\ calls[c].pc = "create"
    /\ FreeHandles # {}
    /\ browser' = [browser EXCEPT ![NextHandle] = BaseUrl(calls[c].provider)]
    /\ tabs' = TrackCreated(tabs, calls[c].provider, NextHandle)
    /\ calls' = [calls EXCEPT ![c] =
                    [Settled(calls[c], "returned", NextHandle, "")
                        EXCEPT !.created = calls[c].created + 1]]
    /\ lastReturn' = [lastReturn EXCEPT ![calls[c].provider] =
                          IF calls[c].clean THEN NextHandle ELSE 0]
    /\ UNCHANGED <<events, pings, eventCount>>
    /\ OrchUnchanged

\* chrome.tabs.create gives a tab without an id: throw new Error(...)
CreateYieldsNoId(c) ==
    /\ c \in DOMAIN calls /\ calls[c].pc = "create"
    /\ tabs' = TrackCreated(tabs, calls[c].provider, 0)
    /\ Throw(c, "Failed to create tab")
    /\ UNCHANGED <<browser, events, pings, eventCount>>
    /\ OrchUnchanged

EnsureStep(c) ==
    \/ TabGetResolves(c)
    \/ TabGetRejects(c)
    \/ \E h \in TabIds : QueryFinds(c, h)
    \/ QueryFindsNone(c)
    \/ ActivateResolves(c)
    \/ ActivateRejects(c)
    \/ \E st \in PingAnswers : EnsurePingAnswered(c, st)
    \/ EnsurePingFails(c)
    \/ CreateResolves(c)
    \/ CreateYieldsNoId(c)

NextRegistry ==
    \/ \E url \in Addresses : OpenTab(url)
    \/ \E h \in TabIds, url \in Addresses : NavigationCompletes(h, url)
    \/ \E h \in TabIds : CloseTab(h)
    \/ OnTabUpdated
    \/ OnTabRemoved
    \/ \E pg \in pings, st \in PingAnswers : EventPingAnswered(pg, st)
    \/ \E pg \in pings : EventPingFails(pg)
    \/ \E p \in Providers : StartEnsure(p)
    \/ \E c \in 1..MaxCalls : EnsureStep(c)

SpecRegistry == Init /\ [][NextRegistry]_vars

\* the registry with every kind of onUpdated event
NextEvents ==
    \/ NextRegistry
    \/ \E h \in TabIds : NavigationStarts(h)
    \/ \E h \in TabIds : UpdateWithoutUrl(h)

SpecEvents == Init /\ [][NextEvents]_vars

(***************************************************************************)
(* TabManager.ensureProviderTab(providerId, true), one action per await    *)
(***************************************************************************)
\* a lookup that takes every provider for untracked
AfterFreshLookupIgnored(found) == "freshCreate"

\* where the call goes after const existingTab = this.tabs.get(providerId)
AfterFreshLookup(found) == IF found THEN "freshGet" ELSE "freshCreate"

\* the call starts and runs to its first await
StartFresh(p) ==
    /\ Len(calls) < MaxCalls /\ Stimuli < MaxStimuli
    /\ LET call == [provider |-> p,
                    pc |-> AfterFreshLookup(Tracked(tabs, p)),
                    existing |-> TrackedHandle(tabs, p),
                    tabId |-> 0, result |-> 0, created |-> 0,
                    stale |-> FALSE, error |-> "",
                    newChat |-> TRUE,
                    ref |-> IF Tracked(tabs, p) THEN TabOf(tabs, p).obj ELSE -1,
                    clean |-> FALSE,
                    prev |-> 0]
       IN  calls' = Append([c \in DOMAIN calls |->
                               IF calls[c].provider = p
                               THEN [calls[c] EXCEPT !.clean = FALSE]
                               ELSE calls[c]], call)
    /\ lastReturn' = [lastReturn EXCEPT ![p] = 0]
    /\ UNCHANGED <<tabs, browser, events, pings, eventCount>>
    /\ OrchUnchanged

\* await chrome.tabs.get(existingTab.tabId) resolves: await the navigation
FreshGetResolves(c) ==
    /\ c \in DOMAIN calls /\ calls[c].pc = "freshGet"
    /\ IsOpen(calls[c].existing)
    /\ calls' = [calls EXCEPT ![c].pc = "navigate"]
    /\ UNCHANGED <<tabs, browser, events, pings, eventCount, lastReturn>>
    /\ OrchUnchanged

\* await chrome.tabs.get(...) rejects: catch { this.tabs.delete(providerId) }
FreshGetRejects(c) ==
    /\ c \in DOMAIN calls /\ calls[c].pc = "freshGet"
    /\ ~IsOpen(calls[c].existing)
    /\ tabs' = TabsDelete(tabs, calls[c].provider)
    /\ calls' = [calls EXCEPT ![c].pc = "freshCreate", ![c].stale = TRUE]
    /\ UNCHANGED <<browser, events, pings, eventCount, lastReturn>>
    /\ OrchUnchanged

\* await chrome.tabs.update(existingTab.tabId, {url: config.newChatUrl,
\* active: true}) resolves; existingTab.isReady = false; return its tabId
NavigateResolves(c) ==
    /\ c \in DOMAIN calls /\ calls[c].pc = "navigate"
    /\ IsOpen(calls[c].existing)
    /\ browser' = [browser EXCEPT ![calls[c].existing] = NewChatUrl(calls[c].provider)]
    /\ tabs' = MarkNotReady(tabs, calls[c].provider, calls[c].ref)
    /\ calls' = [calls EXCEPT ![c] = Settled(calls[c], "returned", calls[c].existing, "")]
    /\ UNCHANGED <<events, pings, eventCount, lastReturn>>
    /\ OrchUnchanged

\* await chrome.tabs.update(...) rejects, the tab is gone:
\* catch { this.tabs.delete(providerId) }
NavigateRejects(c) ==
    /\ c \in DOMAIN calls /\ calls[c].pc = "navigate"
    /\ ~IsOpen(calls[c].existing)
    /\ tabs' = TabsDelete(tabs, calls[c].provider)
    /\ calls' = [calls EXCEPT ![c].pc = "freshCreate", ![c].stale = TRUE]
    /\ UNCHANGED <<browser, events, pings, eventCount, lastReturn>>
    /\ OrchUnchanged

\* await chrome.tabs.create({url: config.newChatUrl}) gives a tab with an id
FreshCreateResolves(c) ==
    /\ c \in DOMAIN calls /\ calls[c].pc = "freshCreate"
    /\ FreeHandles # {}
    /\ browser' = [browser EXCEPT ![NextHandle] = NewChatUrl(calls[c].provider)]
    /\ tabs' = TrackCreated(tabs, calls[c].provider, NextHandle)
    /\ calls' = [calls EXCEPT ![c] =
                    [Settled(calls[c], "returned", NextHandle, "")
                        EXCEPT !.created = calls[c].created + 1]]
    /\ UNCHANGED <<events, pings, eventCount, lastReturn>>
    /\ OrchUnchanged

\* chrome.tabs.create gives a tab without an id: throw new Error(...)
FreshCreateYieldsNoId(c) ==
    /\ c \in DOMAIN calls /\ calls[c].pc = "freshCreate"
    /\ tabs' = TrackCreated(tabs, calls[c].provider, 0)
    /\ Throw(c, "Failed to create tab")
    /\ UNCHANGED <<browser, events, pings, eventCount>>
    /\ OrchUnchanged

FreshStep(c) ==
    \/ FreshGetResolves(c)
    \/ FreshGetRejects(c)
    \/ NavigateResolves(c)
    \/ NavigateRejects(c)
    \/ FreshCreateResolves(c)
    \/ FreshCreateYieldsNoId(c)

\* ensureProviderTab called with either value of newChat
NextFresh ==
    \/ NextRegistry
    \/ \E p \in Providers : StartFresh(p)
    \/ \E c \in 1..MaxCalls : FreshStep(c)

SpecFresh == Init /\ [][NextFresh]_vars

(***************************************************************************)
(* Claims about the QueryOrchestrator                                      *)
(***************************************************************************)
Terminal(s) == s.status \in {"completed", "error"}
IsSuccess(r) == r.error = Undefined
AnyTargetError(s) ==
    \E p \in s.providers : p \in DOMAIN s.responses /\ ~IsSuccess(s.responses[p])
AllTargetsSucceeded(s) ==
    \A p \in s.providers : p \in DOMAIN s.responses /\ IsSuccess(s.responses[p])

\* C1: once a session is completed or error, handling a further
\* RESPONSE_RECEIVED / RESPONSE_ERROR leaves its status and its responses
\* as they were.
C1_TerminalSessionIsFrozen ==
    [][\A q \in Registered :
          (msgCount' # msgCount /\ Terminal(Session(q)))
              => /\ activeSessions'[q].status = Session(q).status
                 /\ activeSessions'[q].responses = Session(q).responses]_vars

\* C2: a session with target providers T is in-progress while some provider
\* of T has no response, and completed when every provider of T holds a
\* success.
C2_CompletedWhenAllSucceed ==
    \A q \in Registered :
        LET s == Session(q)
        IN  s.providers # {} =>
                /\ (~AllReceived(s) => s.status = "in-progress")
                /\ (AllTargetsSucceeded(s) => s.status = "completed")

\* C3: when every target provider of a session has a response and no leg
\* of its submitQuery is still running, the status is error if one of those
\* responses carries an error, and it is completed only if none does.
C3_AnyErrorMeansError ==
    \A q \in Registered :
        LET s == Session(q)
        IN  (/\ s.providers # {} /\ AllReceived(s)
             /\ q \in DOMAIN legs
             /\ \A p \in DOMAIN legs[q] : legs[q][p].pc \in {"done", "rejected"}) =>
                /\ (AnyTargetError(s) => s.status = "error")
                /\ (s.status = "completed" => ~AnyTargetError(s))

\* C4: a step in which a leg catches a thrown value records, for that
\* provider, a response whose error is the Error's message, or "Unknown
\* error" for a value that is no Error; the promise submitQuery returned
\* stays fulfilled and the other legs of the session are left as they are.
C4_LegFailureIsRecorded ==
    [][\A q \in DOMAIN legs : \A p \in DOMAIN legs[q] :
          (legs[q][p].thrown = << >> /\ legs'[q][p].thrown # << >>)
              => LET x == legs'[q][p].thrown[1]
                     r == activeSessions'[q].responses
                 IN  /\ p \in DOMAIN r
                     /\ r[p].queryId = q /\ r[p].providerId = p
                     /\ r[p].error = (IF x.isError THEN x.message ELSE "Unknown error")
                     /\ submits[q].pc = "resolved" /\ submits'[q].pc = "resolved"
                     /\ \A k \in DOMAIN legs[q] \ {p} : legs'[q][k] = legs[q][k]]_vars

\* C4 witness: a leg has caught a rejected string while its sibling is
\* still waiting for its tab
C4_Witness ==
    \E q \in DOMAIN legs : \E p, k \in DOMAIN legs[q] :
        /\ p # k
        /\ Leg(q, p).thrown # << >> /\ ~Leg(q, p).thrown[1].isError
        /\ Leg(q, p).pc = "catchGet"
        /\ Leg(q, k).pc = "ping"

\* C5: the promise returned by submitQuery never rejects.
C5_SubmitNeverRejects ==
    \A q \in DOMAIN submits : submits[q].pc # "rejected"

\* C6: handling a result message whose queryId is not in the session map
\* changes no session, creates none, starts no history write and emits no
\* notification.
C6_UnknownIdIsIgnored ==
    [][(msgCount' # msgCount /\ ~lastCall'.known)
          => /\ activeSessions' = activeSessions
             /\ savers' = savers
             /\ storage' = storage
             /\ sessionUpdates' = sessionUpdates]_vars

\* C6 witness: a RESPONSE_ERROR for an unknown id was handled while a
\* session was in progress
C6_Witness ==
    /\ lastCall.kind = "RESPONSE_ERROR" /\ ~lastCall.known
    /\ \E q \in Registered : Session(q).status = "in-progress" /\ HasLeg(q, "chatgpt")

Polling(q, p) == HasLeg(q, p) /\ Leg(q, p).pc \in {"ping", "sleep"}
PollingEnded(q, p) == HasLeg(q, p) /\ Leg(q, p).pc \notin {"ping", "sleep"}

C7_RepeatedEnsureReturnsSameHandle ==
    \A c \in DOMAIN calls :
        (calls[c].pc = "returned" /\ calls[c].prev # 0 /\ ~calls[c].stale)
            => calls[c].result = calls[c].prev /\ calls[c].created = 0

\* a second call that directly followed a first one has returned
C7_Witness ==
    \E c \in DOMAIN calls :
        /\ c > 1
        /\ calls[c].pc = "returned" /\ calls[c].prev # 0 /\ ~calls[c].stale
        /\ calls[c].result = calls[c].prev

\* the steps of a call that found the tracked handle of its provider stale
StaleRemoved(c) ==
    (calls[c].pc = "checkAlive" /\ calls'[c].pc = "query")
        => calls'[c].stale /\ ~Tracked(tabs', calls[c].provider)

Adopted(c) ==
    (calls[c].pc = "query" /\ calls'[c].pc = "activate")
        => /\ calls'[c].tabId \in Matching(calls[c].provider)
           /\ TrackedHandle(tabs', calls[c].provider) = calls'[c].tabId
           /\ browser' = browser

AdoptedReturned(c) ==
    (calls[c].pc = "ping" /\ calls'[c].pc = "returned")
        => /\ calls'[c].result = calls[c].tabId
           /\ calls'[c].created = 0
           /\ browser' = browser

CreatedReturned(c) ==
    (calls[c].pc = "create" /\ calls'[c].pc = "returned")
        => /\ calls'[c].created = 1
           /\ ~IsOpen(calls'[c].result)
           /\ \A h \in TabIds :
                  browser'[h] # browser[h] <=> h = calls'[c].result
           /\ browser'[calls'[c].result] = BaseUrl(calls[c].provider)
           /\ TrackedHandle(tabs', calls[c].provider) = calls'[c].result

\* the call ends only from the ping of an adopted tab or from the creation
EndsAdoptedOrCreated(c) ==
    (calls[c].pc \notin Finished /\ calls'[c].pc = "returned")
        => calls[c].pc \in {"ping", "create"}

\* C8 as the specification states it: a call that finds the tracked handle
\* stale removes the entry, adopts an open matching tab or creates exactly
\* one, tracks the handle it returns, and does not fail.
C8_StaleHandleIsReplaced ==
    [][\A c \in DOMAIN calls :
          /\ StaleRemoved(c)
          /\ calls'[c].stale =>
                /\ Adopted(c) /\ AdoptedReturned(c) /\ CreatedReturned(c)
                /\ EndsAdoptedOrCreated(c)
                /\ calls'[c].pc # "failed"]_vars

\* C8, amended: a call that finds the tracked handle stale removes the
\* entry; it then adopts an open matching tab, which it tracks and returns
\* without creating one, or creates exactly one tab, which it tracks and
\* returns. It fails only when the creation gives no handle or when the
\* adopted tab is gone before it is activated.
C8_StaleHandleIsReplacedOrFails ==
    [][\A c \in DOMAIN calls :
          /\ StaleRemoved(c)
          /\ calls'[c].stale =>
                /\ Adopted(c) /\ AdoptedReturned(c) /\ CreatedReturned(c)
                /\ EndsAdoptedOrCreated(c)
                /\ (calls[c].pc # "failed" /\ calls'[c].pc = "failed") =>
                      \/ calls[c].pc = "create"
                      \/ calls[c].pc = "activate" /\ ~IsOpen(calls[c].tabId)]_vars

\* a call found its handle stale and returned a tab it created
C8_Witness ==
    \E c \in DOMAIN calls :
        /\ calls[c].stale /\ calls[c].pc = "returned" /\ calls[c].created = 1
        /\ TrackedHandle(tabs, calls[c].provider) = calls[c].result

\* C9: once onTabRemoved(h) has run, no entry of the registry refers to h;
\* for a handle no entry refers to, the registry is left as it is.
C9_ClosedHandleIsUntracked ==
    [][(events # << >> /\ Head(events).kind = "removed" /\ events' = Tail(events))
          => LET h == Head(events).tabId
             IN  /\ \A i \in DOMAIN tabs' : tabs'[i].tabId # h
                 /\ (\A i \in DOMAIN tabs : tabs[i].tabId # h) => tabs' = tabs]_vars

(***************************************************************************)
(* Claims about the order of a leg's steps                                 *)
(***************************************************************************)
\* C11: a leg sends SUBMIT_QUERY only as the step after a PING of its own,
\* to the tab ensureProviderTab returned, was answered ready; it sends
\* nothing before ensureProviderTab has returned and nothing after it has
\* caught a failure.
C11_LegStepsInOrder ==
    [][\A q \in DOMAIN legs : \A p \in DOMAIN legs[q] :
          LET old == legs[q][p]
              new == legs'[q][p]
          IN  /\ (~old.forwarded /\ new.forwarded)
                    => /\ old.pc = "ping" /\ old.thrown = << >>
                       /\ old.tabId \in TabIds
                       /\ new.tabId = old.tabId /\ new.probed = old.tabId
              /\ old.pc = "ensure" => ~old.forwarded
              /\ old.thrown # << >> => new.forwarded = old.forwarded
              /\ (old.pc = "ensure" /\ new.pc # "ensure")
                    => new.pc = "ping" \/ new.thrown # << >>]_vars

\* a leg went through ensure, a ready probe and the forward, and is done
C11_Witness ==
    \E q \in DOMAIN legs : \E p \in DOMAIN legs[q] :
        /\ legs[q][p].pc = "done" /\ legs[q][p].forwarded
        /\ legs[q][p].probed = legs[q][p].tabId /\ legs[q][p].thrown = << >>

(***************************************************************************)
(* ClaudeAdapter (content script): the SUBMIT_QUERY listener               *)
(***************************************************************************)
\* queryIds of the SUBMIT_QUERY messages: generateId() gives each query its
\* own, and a leg sends one SUBMIT_QUERY per query to a provider
AdapterQueryIds == 1..MaxRequests

Min(a, b) == IF a < b THEN a ELSE b

\* notifyResponse: chrome.runtime.sendMessage({type: 'RESPONSE_RECEIVED', ...})
NotifyResponse(ch, id) == Append(ch, [type |-> "RESPONSE_RECEIVED", queryId |-> id])

\* a catch block that reports nothing
NotifyErrorSilent(ch, id) == ch

\* notifyError: chrome.runtime.sendMessage({type: 'RESPONSE_ERROR', ...})
NotifyError(ch, id) == Append(ch, [type |-> "RESPONSE_ERROR", queryId |-> id])

Request(r) == requests[r]
At(r, pc) == r \in DOMAIN requests /\ requests[r].pc = pc

\* the listener got SUBMIT_QUERY: handleSubmitQuery runs to its first
\* await, waitForElement(textareaSelector) in submitQuery
ReceiveSubmitQuery(id) ==
    /\ Len(requests) < MaxRequests
    /\ \A r \in DOMAIN requests : requests[r].queryId # id
    /\ requests' = Append(requests,
                          [queryId |-> id, pc |-> "input", clock |-> 0, pollEnd |-> 0])
    /\ UNCHANGED <<emitted, orchVars, regVars, routerVars, patVars>>

\* the next await of the call
Goto(r, pc, clock) ==
    /\ requests' = [requests EXCEPT ![r].pc = pc, ![r].clock = clock]
    /\ UNCHANGED <<emitted, orchVars, regVars, routerVars, patVars>>

\* this.notifyResponse(queryId, response): the try block is through
Succeed(r) ==
    /\ requests' = [requests EXCEPT ![r].pc = "done"]
    /\ emitted' = NotifyResponse(emitted, Request(r).queryId)
    /\ UNCHANGED <<orchVars, regVars, routerVars, patVars>>

\* catch (error) { this.notifyError(queryId, ...) }
Fail(r) ==
    /\ requests' = [requests EXCEPT ![r].pc = "done"]
    /\ emitted' = NotifyError(emitted, Request(r).queryId)
    /\ UNCHANGED <<orchVars, regVars, routerVars, patVars>>

\* waitForElement(textareaSelector) settles: the text is typed, sleep(100);
\* or its timeout rejects
InputWait(r, found) ==
    /\ At(r, "input")
    /\ IF found THEN Goto(r, "settle", 0) ELSE Fail(r)

\* sleep(100) is over: waitForElement(submitButtonSelector)
InputSettled(r) ==
    /\ At(r, "settle")
    /\ Goto(r, "button", 0)

\* waitForElement(submitButtonSelector) settles; waitForButtonEnabled
\* finds the button enabled, clicks, and waitForResponse waits for the
\* loading indicator; or it sleeps; or the wait for the button timed out
ButtonWait(r, found, disabled) ==
    /\ At(r, "button")
    /\ IF ~found THEN Fail(r)
       ELSE IF disabled THEN Goto(r, "buttonSleep", 0)
       ELSE Goto(r, "loading", 0)

\* while (button.disabled && Date.now() - startTime < timeout)
ButtonLoopGoesOn(disabled, elapsed) == disabled /\ elapsed < ButtonTimeoutMs

\* the sleep(100) of waitForButtonEnabled is over
ButtonTimer(r, disabled) ==
    /\ At(r, "buttonSleep")
    /\ AdapterDelayMs >= LongestSleepMs
    /\ LET e == Request(r).clock + AdapterDelayMs
       IN  IF ButtonLoopGoesOn(disabled, e) THEN Goto(r, "buttonSleep", e)
           ELSE IF disabled THEN Fail(r)
           ELSE Goto(r, "loading", 0)

\* waitForElement(loadingIndicatorSelector, 5000) settles either way:
\* waitForElementRemoval(..., timeoutMs - (Date.now() - startTime))
LoadingWait(r, appeared) ==
    /\ At(r, "loading")
    /\ Goto(r, "removal", IF appeared THEN 0 ELSE LoadingTimeoutMs)

\* waitForElementRemoval settles either way: sleep(500)
RemovalWait(r, removed) ==
    /\ At(r, "removal")
    /\ Goto(r, "settled", IF removed THEN Request(r).clock ELSE ResponseTimeoutMs)

\* while (Date.now() < pollEndTime): sleep again, or give up with
\* throw new Error('No response received')
PollOn(r, clock, pollEnd) ==
    IF clock < pollEnd
    THEN /\ requests' = [requests EXCEPT ![r].pc = "poll", ![r].clock = clock,
                                         ![r].pollEnd = pollEnd]
         /\ UNCHANGED <<emitted, orchVars, regVars, routerVars, patVars>>
    ELSE Fail(r)

\* sleep(500) is over: extractResponseText(); without a response the poll
\* loop starts with its budget of Math.min(30000, timeoutMs - elapsed)
ResponseSettled(r, found) ==
    /\ At(r, "settled")
    /\ LET now == Request(r).clock + AdapterDelayMs
       IN  IF found THEN Succeed(r)
           ELSE PollOn(r, now, now + Min(MaxPollTimeMs, ResponseTimeoutMs - now))

\* the sleep(pollInterval) of the loop is over: with more containers than
\* at the start sleep(1000), else extract and test the loop condition
PollTimer(r, more, found) ==
    /\ At(r, "poll")
    /\ LET now == Request(r).clock + AdapterDelayMs
       IN  IF more THEN Goto(r, "stream", now)
           ELSE IF found THEN Succeed(r)
           ELSE PollOn(r, now, Request(r).pollEnd)

\* sleep(1000) is over: extract (twice, of the same document), loop test
StreamTimer(r, found) ==
    /\ At(r, "stream")
    /\ LET now == Request(r).clock + AdapterDelayMs
       IN  IF found THEN Succeed(r)
           ELSE PollOn(r, now, Request(r).pollEnd)

AdapterStep(r) ==
    \/ \E found \in BOOLEAN : InputWait(r, found)
    \/ InputSettled(r)
    \/ \E found, disabled \in BOOLEAN : ButtonWait(r, found, disabled)
    \/ \E disabled \in BOOLEAN : ButtonTimer(r, disabled)
    \/ \E appeared \in BOOLEAN : LoadingWait(r, appeared)
    \/ \E removed \in BOOLEAN : RemovalWait(r, removed)
    \/ \E found \in BOOLEAN : ResponseSettled(r, found)
    \/ \E more, found \in BOOLEAN : PollTimer(r, more, found)
    \/ \E found \in BOOLEAN : StreamTimer(r, found)

NextAdapter ==
    \/ \E id \in AdapterQueryIds : ReceiveSubmitQuery(id)
    \/ \E r \in 1..MaxRequests : AdapterStep(r)

\* the page lives on: timers fire, waits settle
SpecAdapter ==
    Init /\ [][NextAdapter]_vars /\ \A r \in 1..MaxRequests : WF_vars(AdapterStep(r))

(***************************************************************************)
(* Claims about the adapter                                                *)
(***************************************************************************)
Carrying(id) == {i \in DOMAIN emitted : emitted[i].queryId = id}
Received(id) == \E r \in DOMAIN requests : requests[r].queryId = id

\* C12: for every SUBMIT_QUERY the adapter received, it sends in the end
\* one message with that queryId, RESPONSE_RECEIVED or RESPONSE_ERROR; it
\* never sends a second one, and none for a queryId it did not receive.
C12_ExactlyOneReply ==
    /\ [](\A id \in AdapterQueryIds :
             /\ Cardinality(Carrying(id)) <= 1
             /\ \A i \in Carrying(id) :
                    /\ emitted[i].type \in {"RESPONSE_RECEIVED", "RESPONSE_ERROR"}
                    /\ Received(id)
             /\ \A r \in DOMAIN requests :
                    (requests[r].queryId = id /\ requests[r].pc = "done")
                        => Cardinality(Carrying(id)) = 1)
    /\ \A id \in AdapterQueryIds :
           Received(id) ~> (Cardinality(Carrying(id)) = 1)

\* two requests were answered, one after the poll loop ran out, one with
\* a response
C12_Witness ==
    /\ \E r \in DOMAIN requests :
           /\ requests[r].pc = "done" /\ requests[r].pollEnd > 0
           /\ requests[r].clock >= requests[r].pollEnd
           /\ \E i \in Carrying(requests[r].queryId) : emitted[i].type = "RESPONSE_ERROR"
    /\ \E r \in DOMAIN requests :
           /\ requests[r].pc = "done"
           /\ \E i \in Carrying(requests[r].queryId) : emitted[i].type = "RESPONSE_RECEIVED"

(***************************************************************************)
(* Claims about recorded results and submitQuery                           *)
(***************************************************************************)
\* the response a result message of the given kind puts into a session
IsResultOf(r, kind, q, p) ==
    IF kind = "RESPONSE_ERROR"
    THEN \E e \in ErrorPayloads : r = ErrorResponse(q, p, e)
    ELSE \E t \in Texts : r = SuccessResponse(q, p, t)

\* C13: a result message for a registered query and provider p leaves the
\* session with the response of that message under p, whether or not p had
\* a response before, and leaves the responses of the other providers as
\* they were: last write wins, one response per provider.
C13_LastWriteWins ==
    [][(msgCount' = msgCount + 1 /\ lastCall'.known)
          => \E q \in Registered :
                LET old == activeSessions[q].responses
                    new == activeSessions'[q].responses
                    p == lastCall'.providerId
                IN  /\ DOMAIN new = DOMAIN old \cup {p}
                    /\ IsResultOf(new[p], lastCall'.kind, q, p)
                    /\ \A k \in DOMAIN old : k # p => new[k] = old[k]
                    /\ \A k \in Registered \ {q} :
                           activeSessions'[k] = activeSessions[k]]_vars

\* two result messages named the same query and provider with different
\* results, and the session holds the later one
C13_Witness ==
    \E a, b \in savers :
        /\ a.id < b.id /\ a.response # b.response
        /\ a.response.queryId = b.response.queryId
        /\ a.response.providerId = b.response.providerId
        /\ b.response.queryId \in Registered
        /\ b.response.providerId \in DOMAIN activeSessions[b.response.queryId].responses
        /\ activeSessions[b.response.queryId].responses[b.response.providerId] = b.response

Settled_(pc) == pc \in {"resolved", "rejected"}

\* C14: the step that settles a submitQuery call resolves it; the session
\* is then registered under the query id with status in-progress and every
\* leg is still waiting for ensureProviderTab; no registered session has
\* the status pending.
C14_SubmitResolvesInProgress ==
    [][/\ \A q \in DOMAIN submits :
              (~Settled_(submits[q].pc) /\ Settled_(submits'[q].pc))
                  => /\ submits'[q].pc = "resolved"
                     /\ q \in DOMAIN activeSessions'
                     /\ activeSessions'[q].status = "in-progress"
                     /\ \A p \in DOMAIN legs'[q] : legs'[q][p].pc = "ensure"
       /\ \A q \in DOMAIN activeSessions' : activeSessions'[q].status # "pending"]_vars

(***************************************************************************)
(* The query history: submitQuery calls over a store that holds queries    *)
(***************************************************************************)
\* ids of the queries persisted before: position 1 is the newest
PriorHistory(n) == [i \in 1..n |-> 1000 + i]

\* lengths of the persisted list at the start, up to the cap the code keeps
PriorLengths == {0, 1, QueryHistoryLimit - 1, QueryHistoryLimit}

InitSave ==
    /\ activeSessions = << >>
    /\ nextId = 0
    /\ submits = << >>
    /\ legs = << >>
    /\ \E n \in PriorLengths :
           storage = [queries |-> PriorHistory(n), responses |-> << >>,
                      totalQueries |-> n]
    /\ savers = {}
    /\ sessionUpdates = << >>
    /\ msgCount = 0
    /\ lastCall = [kind |-> "none", known |-> FALSE, providerId |-> "none"]
    /\ sessionListeners = << >>
    /\ listenerCalls = [l \in ListenerIds |-> << >>]
    /\ unsubscribed = {}
    /\ InitReg /\ InitAdapter /\ InitRouterVars /\ InitNoPatterns

NextSave ==
    \/ \E ps \in TargetSets, flag \in NewChatFlags : SubmitQueryUpTo(MaxSaves, ps, flag)
    \/ \E q \in 1..MaxSaves : SubmitStep(q)

SpecSave == InitSave /\ [][NextSave]_vars

\* C15: the step in which a submitQuery call writes the queries list leaves
\* the new query first, the entries persisted before behind it in their
\* order, and at most QueryHistoryLimit entries, the oldest dropped.
C15_HistoryPrependsAndCaps ==
    [][\A q \in DOMAIN submits :
          (submits[q].pc = "setQueries" /\ submits'[q].pc = "getStats")
              => LET old == storage.queries
                     new == storage'.queries
                 IN  /\ Len(new) = Min(Len(old) + 1, QueryHistoryLimit)
                     /\ new[1] = q
                     /\ \A i \in 2..Len(new) : new[i] = old[i - 1]]_vars

PastWrite(pc) == pc \in {"getStats", "setStats", "resolved"}

\* C16: a submitQuery call gets past the write of the queries list only by
\* the step that stores the list with its query first; the legs of its
\* session start (each calls ensureProviderTab at once) only after that
\* step, in the step that sends the first SESSION_UPDATE of the session.
C16_HistoryAndNotifyBeforeLegs ==
    [][\A q \in DOMAIN submits :
          /\ (~PastWrite(submits[q].pc) /\ PastWrite(submits'[q].pc))
                => /\ submits[q].pc = "setQueries"
                   /\ storage'.queries # << >> /\ storage'.queries[1] = q
          /\ (legs[q] = << >> /\ legs'[q] # << >>)
                => /\ PastWrite(submits[q].pc)
                   /\ sessionUpdates[q] = 0 /\ sessionUpdates'[q] >= 1
                   /\ \A p \in DOMAIN legs'[q] : legs'[q][p].pc = "ensure"
          /\ legs[q] # << >> => sessionUpdates[q] >= 1]_vars

\* a leg got its tab from ensureProviderTab; the query is in the history
C16_Witness ==
    \E q \in DOMAIN legs : \E p \in DOMAIN legs[q] :
        /\ legs[q][p].pc = "ping"
        /\ storage.queries # << >> /\ storage.queries[1] = q
        /\ sessionUpdates[q] >= 1

\* C17: every leg calls ensureProviderTab with the newChat flag of the
\* SUBMIT_QUERY message of its session, false when the message has none.
C17_FreshSessionReachesLegs ==
    \A q \in DOMAIN legs : \A p \in DOMAIN legs[q] :
        legs[q][p].newChat = (submits[q].newChat = "true")

\* the step in which call c leaves program point pc
Leaves(c, pc) == c \in DOMAIN calls /\ calls[c].pc = pc /\ calls'[c].pc # pc

\* the navigation of a fresh-session call resolved: the call returns the
\* handle it found tracked, that tab is on the new-chat address, nothing was
\* created, and the entry tracked for the provider is not ready
ReusedAndNotReady(c) ==
    LET p == calls[c].provider
    IN  /\ calls'[c].pc = "returned"
        /\ calls'[c].result = calls[c].existing
        /\ calls'[c].created = 0
        /\ browser'[calls[c].existing] = NewChatUrl(p)
        /\ Tracked(tabs', p) /\ TabOf(tabs', p).tabId = calls[c].existing
              => ~TabOf(tabs', p).isReady

\* a fresh-session call whose tab was gone ends with one tab created at the
\* new-chat address and tracked, not ready
ReplacedByNewChat(c) ==
    LET p == calls[c].provider
        h == calls'[c].result
    IN  /\ calls'[c].pc = "returned"
        /\ calls'[c].created = 1
        /\ browser[h] = "none" /\ browser'[h] = NewChatUrl(p)
        /\ Tracked(tabs', p)
        /\ TabOf(tabs', p).tabId = h /\ ~TabOf(tabs', p).isReady

\* C18: ensure(P, true) on a tracked, live tab navigates it to the new-chat
\* address, marks the entry not ready and returns the same handle without
\* creating a tab; when the liveness check or the navigation fails, the
\* entry is discarded and exactly one tab is created at the new-chat address
\* and tracked as not ready.
C18_FreshSessionReusesOrReplaces ==
    [][\A c \in DOMAIN calls :
          /\ Leaves(c, "navigate") /\ IsOpen(calls[c].existing) => ReusedAndNotReady(c)
          /\ (Leaves(c, "freshGet") \/ Leaves(c, "navigate")) /\ ~IsOpen(calls[c].existing)
                => ~Tracked(tabs', calls[c].provider)
          /\ Leaves(c, "freshCreate") /\ calls[c].stale => ReplacedByNewChat(c)]_vars

\* C19: when chrome.tabs.create yields a tab without an id, the call fails
\* with the creation-failed error and the tracked entries stay as they
\* were: no entry is added for the provider.
C19_CreationFailureTracksNothing ==
    [][\A c \in DOMAIN calls :
          (Leaves(c, "create") \/ Leaves(c, "freshCreate")) /\ calls'[c].pc = "failed"
              => /\ calls'[c].error = "Failed to create tab"
                 /\ calls'[c].result = 0
                 /\ tabs' = tabs
                 /\ browser' = browser]_vars

C19_Witness ==
    \E c \in DOMAIN calls :
        /\ calls[c].pc = "failed"
        /\ calls[c].error = "Failed to create tab"
        /\ ~Tracked(tabs, calls[c].provider)

\* the step in which onTabUpdated handles the oldest event
HandlesUpdate ==
    /\ events # << >> /\ Head(events).kind = "updated"
    /\ events' = Tail(events)

\* C20: a navigation-completed event (status complete, address present)
\* whose address matches provider P makes the tab P's tracked entry with
\* isReady and isLoggedIn false and sends the tab a PING; an event that is
\* not complete, has no address or matches no provider changes no entry.
C20_CompletedNavigationIsTracked ==
    [][HandlesUpdate =>
          LET e == Head(events)
              hits == {p \in Providers : MatchesProvider(e.url, p)}
          IN  IF e.status = "complete" /\ e.url # "" /\ hits # {}
              THEN \A p \in hits :
                      /\ Tracked(tabs', p)
                      /\ TabOf(tabs', p).tabId = e.tabId
                      /\ ~TabOf(tabs', p).isReady /\ ~TabOf(tabs', p).isLoggedIn
                      /\ [tabId |-> e.tabId, providerId |-> p] \in pings'
              ELSE tabs' = tabs /\ pings' = pings]_vars

\* an entry that only a lifecycle event can have made, its PING under way
C20_Witness ==
    /\ calls = << >>
    /\ \E p \in Providers :
          /\ Tracked(tabs, p) /\ ~TabOf(tabs, p).isReady
          /\ [tabId |-> TabOf(tabs, p).tabId, providerId |-> p] \in pings

(***************************************************************************)
(* TabManager.updateTabStatus                                              *)
(***************************************************************************)
\* an update that tracks a provider the map does not hold
UpdateTabStatusUpserts(t, p, isReady, isLoggedIn) ==
    IF Tracked(t, p)
    THEN SetFlags(t, p, [isReady |-> isReady, isLoggedIn |-> isLoggedIn])
    ELSE Append(t, [providerId |-> p, tabId |-> 0, isReady |-> isReady,
                    isLoggedIn |-> isLoggedIn, obj |-> 0])

\* const tab = this.tabs.get(providerId);
\* if (tab) { tab.isReady = isReady; tab.isLoggedIn = isLoggedIn; }
UpdateTabStatus(t, p, isReady, isLoggedIn) ==
    IF Tracked(t, p)
    THEN SetFlags(t, p, [isReady |-> isReady, isLoggedIn |-> isLoggedIn])
    ELSE t

(***************************************************************************)
(* MessageHandler: the messages and the collaborators                      *)
(***************************************************************************)
\* the cases of the switch in handleMessage
SyncKinds == {"RESPONSE_RECEIVED", "RESPONSE_ERROR", "PROVIDER_STATUS_UPDATE",
              "GET_PROVIDER_STATUS"}
AsyncKinds == {"SUBMIT_QUERY", "SAVE_RATING", "GET_HISTORY"}
KnownKinds == SyncKinds \cup AsyncKinds

\* a type of ExtensionMessage the switch has no case for
UnknownKinds == {"NEW_CHAT"}

\* sender.tab?.id of the messages: none, a tracked tab, another tab
SenderTabs == {0, 1, 3}

Votes == {"up", "down"}

Message(type, p, isReady, isLoggedIn, vote, tab) ==
    [type |-> type, providerId |-> p, isReady |-> isReady,
     isLoggedIn |-> isLoggedIn, vote |-> vote, senderTab |-> tab]

Plain(type) == Message(type, "chatgpt", FALSE, FALSE, "up", 0)

\* the messages the router is given
Messages ==
    {Plain(type) : type \in (KnownKinds \cup UnknownKinds)
                            \ {"PROVIDER_STATUS_UPDATE", "SAVE_RATING"}}
    \cup {Message("PROVIDER_STATUS_UPDATE", p, r, l, "up", tab) :
             p \in Providers, r \in BOOLEAN, l \in BOOLEAN, tab \in SenderTabs}
    \cup {Message("SAVE_RATING", p, FALSE, FALSE, v, 0) : p \in Providers, v \in Votes}

\* what the operation of the orchestrator the message is handed to does:
\* it returns (its promise resolves), or it throws (its promise rejects) an
\* Error or another value
Outcomes == {"returns", "throwsError", "throwsValue"}

\* submitQuery rejects when a storage call of saveQueryToHistory rejects;
\* handleResponseReceived and handleResponseError throw what a session
\* listener throws in notifySessionUpdate; the TabManager methods return
OutcomesOf(type) ==
    IF type \in {"SUBMIT_QUERY", "RESPONSE_RECEIVED", "RESPONSE_ERROR"}
    THEN Outcomes ELSE {"returns"}

Thrown(outcome) ==
    IF outcome = "throwsError" THEN Err("Provider not available")
    ELSE NonErr("String error")

\* the replies given to sendResponse
SuccessReply == [kind |-> "success", error |-> Undefined]
FailureReply(x) == [kind |-> "failure", error |-> ErrorMessage(x)]
StatusesReply == [kind |-> "statuses", error |-> Undefined]

\* a router that takes every sender for a content script in a tab
HasSenderTabUnchecked(msg) == TRUE

\* if (sender.tab?.id)
HasSenderTab(msg) == msg.senderTab # 0

\* the method of the orchestrator or the TabManager a message is handed to
Downstream(msg) ==
    CASE msg.type = "SUBMIT_QUERY" -> <<"submitQuery">>
      [] msg.type = "RESPONSE_RECEIVED" -> <<"handleResponseReceived">>
      [] msg.type = "RESPONSE_ERROR" -> <<"handleResponseError">>
      [] msg.type = "PROVIDER_STATUS_UPDATE" ->
             IF HasSenderTab(msg) THEN <<"updateTabStatus">> ELSE << >>
      [] msg.type = "GET_PROVIDER_STATUS" -> <<"getAllStatuses">>
      [] OTHER -> << >>

\* a router that defers no reply
ReturnValueNeverDeferred(type) == "false"

\* the value handleMessage returns
ReturnValue(type) == IF type \in AsyncKinds THEN "true" ELSE "false"

\* the reply a case of the switch sends before it returns
SyncReply(type) ==
    IF type = "GET_PROVIDER_STATUS" THEN <<StatusesReply>>
    ELSE IF type \in SyncKinds THEN <<SuccessReply>>
    ELSE << >>

\* the first await of the handlers of the deferred kinds
FirstAwait(type) ==
    CASE type = "SUBMIT_QUERY" -> "awaitSubmit"
      [] type = "SAVE_RATING" -> "getRatings"
      [] type = "GET_HISTORY" -> "getHistory"
      [] OTHER -> "done"

(***************************************************************************)
(* MessageHandler.handleMessage and the handlers it starts                 *)
(***************************************************************************)
NoLocal == [ratings |-> << >>, stats |-> NoStats, existing |-> "none"]

\* the record of one handleMessage call
\*   invoked: the methods of the collaborators called, in order
\*   replies: what sendResponse was called with, in order
\*   returned: "true", "false", or "threw" when the call did not return
\*   atReturn: the number of replies sent when the call returned
Handling(msg, outcome, replies, returned, pc) ==
    [msg |-> msg, outcome |-> outcome,
     invoked |-> Downstream(msg), replies |-> replies,
     returned |-> returned, atReturn |-> Len(replies),
     pc |-> pc, local |-> NoLocal]

\* handleMessage(message, sender, sendResponse): the switch, the handler of
\* the case up to its first await, the reply of the immediate kinds
HandleMessage(msg, outcome) ==
    /\ Len(inbox) < MaxInbound
    /\ outcome \in OutcomesOf(msg.type)
    /\ LET type == msg.type
       IN  IF type \in SyncKinds /\ outcome # "returns"
           THEN \* the method threw: nothing catches it in handleMessage
                /\ inbox' = Append(inbox, Handling(msg, outcome, << >>, "threw", "done"))
                /\ UNCHANGED tabs
           ELSE /\ inbox' = Append(inbox, Handling(msg, outcome, SyncReply(type),
                                                   ReturnValue(type), FirstAwait(type)))
                /\ tabs' = IF type = "PROVIDER_STATUS_UPDATE" /\ HasSenderTab(msg)
                           THEN UpdateTabStatus(tabs, msg.providerId,
                                                msg.isReady, msg.isLoggedIn)
                           ELSE tabs
    /\ UNCHANGED <<ratingStore, browser, calls, events, pings, eventCount, lastReturn>>
    /\ UNCHANGED <<orchVars, adVars, patVars>>

RouterQuiet == UNCHANGED <<orchVars, regVars, adVars, patVars>>

\* sendResponse(reply), and the handler is through
ReplyAndFinish(m, reply) ==
    inbox' = [inbox EXCEPT ![m].replies = Append(@, reply), ![m].pc = "done",
                           ![m].local = NoLocal]

\* handleSubmitQuery: await this.orchestrator.submitQuery(...) settles
SubmitSettles(m) ==
    /\ m \in DOMAIN inbox /\ inbox[m].pc = "awaitSubmit"
    /\ ReplyAndFinish(m, IF inbox[m].outcome = "returns" THEN SuccessReply
                         ELSE FailureReply(Thrown(inbox[m].outcome)))
    /\ UNCHANGED ratingStore
    /\ RouterQuiet

\* existingRatings.find(same queryId and providerId): its vote, or "none".
\* The messages of the model all name one query.
ExistingVote(ratings, p) ==
    LET hits == {i \in DOMAIN ratings : ratings[i].providerId = p}
    IN  IF hits = {} THEN "none"
        ELSE ratings[CHOOSE i \in hits : \A j \in hits : i <= j].vote

\* existingRatings.filter(not the same key), then ratings.push(rating)
IsOther(r, p) == r.providerId # p
WithRating(ratings, p, vote) ==
    LET Keep(r) == IsOther(r, p)
    IN  Append(SelectSeq(ratings, Keep), [providerId |-> p, vote |-> vote])

Decrement(n) == IF n > 0 THEN n - 1 ELSE 0

\* result.stats || { totalQueries: 0, totalRatings: 0, thumbsUpByProvider: {},
\* thumbsDownByProvider: {} }, then the counts are adjusted
WithVote(stats, existing, p, vote) ==
    LET removed ==
            IF existing = "none"
            THEN [stats EXCEPT !.totalRatings = @ + 1]
            ELSE IF existing = "up"
                 THEN [stats EXCEPT !.up[p] = Decrement(@)]
                 ELSE [stats EXCEPT !.down[p] = Decrement(@)]
        added ==
            IF vote = "up" THEN [removed EXCEPT !.up[p] = @ + 1]
            ELSE [removed EXCEPT !.down[p] = @ + 1]
    IN  [added EXCEPT !.shape = "ratings"]

\* await chrome.storage.local.get(['ratings', 'stats']) resolves; the new
\* list is built and chrome.storage.local.set({ ratings }) is called
RatingGet(m) ==
    /\ m \in DOMAIN inbox /\ inbox[m].pc = "getRatings"
    /\ LET msg == inbox[m].msg
       IN  inbox' = [inbox EXCEPT
                        ![m].pc = "setRatings",
                        ![m].invoked = Append(@, "storage.get"),
                        ![m].local =
                            [ratings |-> WithRating(ratingStore.ratings,
                                                    msg.providerId, msg.vote),
                             stats |-> ratingStore.stats,
                             existing |-> ExistingVote(ratingStore.ratings,
                                                       msg.providerId)]]
    /\ UNCHANGED ratingStore
    /\ RouterQuiet

\* a store that merges what is written into what it holds: a rating is
\* added to the stored list, a new rating is counted on the stored counter
SetMerging(store, key, value) ==
    IF key = "ratings"
    THEN [store EXCEPT !.ratings = @ \o value]
    ELSE [store EXCEPT !.stats =
             [value EXCEPT !.totalRatings = store.stats.totalRatings + 1]]

\* chrome.storage.local.set({ [key]: value }): the value under the key is
\* replaced whole
Set(store, key, value) == [store EXCEPT ![key] = value]

\* the stats the first query wrote have no thumbsUpByProvider: reading
\* stats.thumbsUpByProvider[providerId] throws a TypeError
StatsUnusable(stats) == stats.shape = "queries"

\* await chrome.storage.local.set({ ratings }) resolves; the stats are
\* adjusted and chrome.storage.local.set({ stats }) is called
RatingSetRatings(m) ==
    /\ m \in DOMAIN inbox /\ inbox[m].pc = "setRatings"
    /\ ratingStore' = Set(ratingStore, "ratings", inbox[m].local.ratings)
    /\ LET msg == inbox[m].msg
           loc == inbox[m].local
       IN  IF StatsUnusable(loc.stats)
           THEN inbox' = [inbox EXCEPT
                             ![m].replies = Append(@, FailureReply(
                                 Err("Cannot read properties of undefined"))),
                             ![m].invoked = Append(@, "storage.set"),
                             ![m].pc = "done", ![m].local = NoLocal]
           ELSE inbox' = [inbox EXCEPT
                             ![m].pc = "setStats",
                             ![m].invoked = Append(@, "storage.set"),
                             ![m].local.stats =
                                 WithVote(loc.stats, loc.existing,
                                          msg.providerId, msg.vote)]
    /\ RouterQuiet

\* await chrome.storage.local.set({ stats }) resolves:
\* sendResponse({ success: true, rating }).  The locals stay as the call
\* read and built them.
RatingSetStats(m) ==
    /\ m \in DOMAIN inbox /\ inbox[m].pc = "setStats"
    /\ ratingStore' = Set(ratingStore, "stats", inbox[m].local.stats)
    /\ inbox' = [inbox EXCEPT ![m].replies = Append(@, SuccessReply),
                              ![m].invoked = Append(@, "storage.set"),
                              ![m].pc = "done"]
    /\ RouterQuiet

\* a storage call of handleSaveRating or handleGetHistory rejects: catch
StorageRejects(m) ==
    /\ m \in DOMAIN inbox
    /\ inbox[m].pc \in {"getRatings", "setRatings", "setStats", "getHistory"}
    /\ ReplyAndFinish(m, FailureReply(Err("storage failure")))
    /\ UNCHANGED ratingStore
    /\ RouterQuiet

\* handleGetHistory: await chrome.storage.local.get([...]) resolves
HistoryGet(m) ==
    /\ m \in DOMAIN inbox /\ inbox[m].pc = "getHistory"
    /\ inbox' = [inbox EXCEPT ![m].replies = Append(@, SuccessReply),
                              ![m].invoked = Append(@, "storage.get"),
                              ![m].pc = "done"]
    /\ UNCHANGED ratingStore
    /\ RouterQuiet

\* what the registry tracks when the messages arrive
TrackedBefore ==
    {<< >>,
     <<[providerId |-> "chatgpt", tabId |-> 1, isReady |-> FALSE,
        isLoggedIn |-> FALSE, obj |-> 0]>>,
     <<[providerId |-> "chatgpt", tabId |-> 1, isReady |-> TRUE,
        isLoggedIn |-> TRUE, obj |-> 0],
       [providerId |-> "claude", tabId |-> 2, isReady |-> FALSE,
        isLoggedIn |-> TRUE, obj |-> 0]>>}

\* the stats key: absent, written by handleSaveRating, or written by
\* saveQueryToHistory ({ totalQueries, totalRatings, averageByProvider,
\* winsByProvider })
StatsBefore == {NoStats, [NoStats EXCEPT !.shape = "ratings"],
                [NoStats EXCEPT !.shape = "queries"]}

InitRouter ==
    /\ InitOrch /\ InitAdapter
    /\ tabs \in TrackedBefore
    /\ browser = [h \in TabIds |->
                     IF \E i \in DOMAIN tabs : tabs[i].tabId = h
                     THEN NewChatUrl((CHOOSE e \in {tabs[i] : i \in DOMAIN tabs} :
                                          e.tabId = h).providerId)
                     ELSE "none"]
    /\ calls = << >>
    /\ events = << >>
    /\ pings = {}
    /\ eventCount = 0
    /\ lastReturn = [p \in Providers |-> 0]
    /\ inbox = << >>
    /\ ratingStore \in {[ratings |-> << >>, stats |-> st] : st \in StatsBefore}
    /\ InitNoPatterns

RouterStep(m) ==
    \/ SubmitSettles(m)
    \/ RatingGet(m)
    \/ RatingSetRatings(m)
    \/ RatingSetStats(m)
    \/ StorageRejects(m)
    \/ HistoryGet(m)

NextRouter ==
    \/ \E msg \in Messages, outcome \in Outcomes : HandleMessage(msg, outcome)
    \/ \E m \in 1..MaxInbound : RouterStep(m)

SpecRouter == InitRouter /\ [][NextRouter]_vars

(***************************************************************************)
(* Claims about TabManager.updateTabStatus and the MessageHandler          *)
(***************************************************************************)
\* the step in which handleMessage is called with a message of this type
Receives(type) ==
    /\ Len(inbox') = Len(inbox) + 1
    /\ inbox'[Len(inbox')].msg.type = type

Received_ == inbox'[Len(inbox')]

\* C21: updateTabStatus(P, isReady, isLoggedIn) sets these two flags of
\* P's entry and nothing else, doing it again changes nothing, and for an
\* untracked P the map stays as it was.
C21_UpdateStatusSetsTwoFlags ==
    [][Receives("PROVIDER_STATUS_UPDATE") /\ Received_.msg.senderTab # 0 =>
          LET msg == Received_.msg
              p == msg.providerId
          IN  /\ ~Tracked(tabs, p) => tabs' = tabs
              /\ Tracked(tabs, p) =>
                    /\ Len(tabs') = Len(tabs)
                    /\ \A i \in DOMAIN tabs :
                          IF tabs[i].providerId = p
                          THEN tabs'[i] = [tabs[i] EXCEPT !.isReady = msg.isReady,
                                                          !.isLoggedIn = msg.isLoggedIn]
                          ELSE tabs'[i] = tabs[i]
              /\ UpdateTabStatus(tabs', p, msg.isReady, msg.isLoggedIn) = tabs'
              /\ Received_.returned # "threw"]_vars

C21_Witness ==
    \E m \in DOMAIN inbox :
        /\ inbox[m].msg.type = "PROVIDER_STATUS_UPDATE"
        /\ inbox[m].msg.providerId = "chatgpt" /\ inbox[m].msg.senderTab # 0
        /\ Tracked(tabs, "chatgpt")
        /\ TabOf(tabs, "chatgpt").isReady /\ ~TabOf(tabs, "chatgpt").isLoggedIn

\* C22: every handleMessage call that returns, returns true for
\* SUBMIT_QUERY, with no reply sent yet, and false for RESPONSE_RECEIVED,
\* RESPONSE_ERROR, PROVIDER_STATUS_UPDATE, GET_PROVIDER_STATUS and unknown
\* types; a call that returned false sends no reply after it returned.
C22_ReturnValueSignalsDeferredReply ==
    \A m \in DOMAIN inbox :
        inbox[m].returned # "threw" =>
            /\ inbox[m].msg.type = "SUBMIT_QUERY"
                  => inbox[m].returned = "true" /\ inbox[m].atReturn = 0
            /\ inbox[m].msg.type \in SyncKinds \cup UnknownKinds
                  => inbox[m].returned = "false"
            /\ inbox[m].returned = "false"
                  => Len(inbox[m].replies) = inbox[m].atReturn
            /\ inbox[m].msg.type \in SyncKinds => inbox[m].atReturn = 1

C22_Witness ==
    \E m, n \in DOMAIN inbox :
        /\ inbox[m].msg.type = "SUBMIT_QUERY" /\ inbox[m].returned = "true"
        /\ inbox[m].atReturn = 0 /\ Len(inbox[m].replies) = 1
        /\ inbox[n].msg.type = "RESPONSE_RECEIVED" /\ inbox[n].returned = "false"
        /\ inbox[n].replies = <<SuccessReply>>

\* the kinds handed to one method of the orchestrator or the TabManager
Delegated == {"SUBMIT_QUERY", "RESPONSE_RECEIVED", "RESPONSE_ERROR",
              "PROVIDER_STATUS_UPDATE", "GET_PROVIDER_STATUS"}

\* C23: a handled message of a known kind had exactly one operation
\* invoked for it and got exactly one reply, for SUBMIT_QUERY the success
\* or the failure reply; a message of an unknown kind got no reply and had
\* nothing invoked.
C23_OneOperationOneReply ==
    \A m \in DOMAIN inbox :
        inbox[m].pc = "done" =>
            /\ inbox[m].msg.type \in KnownKinds => Len(inbox[m].replies) = 1
            /\ inbox[m].msg.type \in Delegated => Len(inbox[m].invoked) = 1
            /\ inbox[m].msg.type \in AsyncKinds => Len(inbox[m].invoked) >= 1
            /\ inbox[m].msg.type = "SUBMIT_QUERY"
                  => inbox[m].replies[1].kind \in {"success", "failure"}
            /\ inbox[m].msg.type \in UnknownKinds
                  => inbox[m].replies = << >> /\ inbox[m].invoked = << >>

\* C24: when the operation a message is handed to throws or rejects, the
\* handleMessage call still returns and the message gets the one reply
\* { success: false, error }, error being the message of the Error or
\* "Unknown error".
C24_ThrownErrorBecomesFailureReply ==
    \A m \in DOMAIN inbox :
        inbox[m].pc = "done" /\ inbox[m].outcome # "returns" =>
            /\ inbox[m].returned # "threw"
            /\ inbox[m].replies = <<FailureReply(Thrown(inbox[m].outcome))>>

\* C25: a PROVIDER_STATUS_UPDATE is answered { success: true }; without a
\* sender tab it leaves every tracked entry as it was, with one the flags
\* of the named provider's entry are those of the message.
C25_StatusUpdateNeedsSenderTab ==
    [][Receives("PROVIDER_STATUS_UPDATE") =>
          LET msg == Received_.msg
              p == msg.providerId
          IN  /\ Received_.replies = <<SuccessReply>>
              /\ Received_.returned = "false"
              /\ msg.senderTab = 0 => tabs' = tabs
              /\ msg.senderTab # 0 /\ Tracked(tabs, p) =>
                    /\ TabOf(tabs', p).isReady = msg.isReady
                    /\ TabOf(tabs', p).isLoggedIn = msg.isLoggedIn]_vars

C25_Witness ==
    \E m, n \in DOMAIN inbox :
        /\ inbox[m].msg.type = "PROVIDER_STATUS_UPDATE" /\ inbox[m].msg.senderTab = 0
        /\ inbox[m].replies = <<SuccessReply>>
        /\ inbox[n].msg.type = "PROVIDER_STATUS_UPDATE" /\ inbox[n].msg.senderTab # 0
        /\ inbox[n].msg.providerId = "claude" /\ Tracked(tabs, "claude")
        /\ TabOf(tabs, "claude").isReady /\ ~TabOf(tabs, "claude").isLoggedIn

(***************************************************************************)
(* QueryOrchestrator.onSessionUpdate                                       *)
(***************************************************************************)
ListenersQuiet ==
    /\ UNCHANGED <<activeSessions, nextId, submits, legs, storage, savers,
                   sessionUpdates, msgCount, lastCall>>
    /\ UNCHANGED outsideOrch

\* onSessionUpdate(listener): this.sessionListeners.push(listener).
\* A function is given to onSessionUpdate once.
OnSessionUpdate(l) ==
    /\ l \notin {sessionListeners[i] : i \in DOMAIN sessionListeners}
    /\ l \notin unsubscribed
    /\ Len(sessionListeners) + Cardinality(unsubscribed) < MaxListeners
    /\ sessionListeners' = Append(sessionListeners, l)
    /\ UNCHANGED <<listenerCalls, unsubscribed>>
    /\ ListenersQuiet

\* the function onSessionUpdate returned is called, between two handlers
Unsubscribe(l) ==
    /\ l \in {sessionListeners[i] : i \in DOMAIN sessionListeners}
    /\ sessionListeners' = Unsubscribed(sessionListeners, l)
    /\ unsubscribed' = unsubscribed \cup {l}
    /\ UNCHANGED listenerCalls
    /\ ListenersQuiet

\* the orchestrator with listeners, one provider per query
NextListeners ==
    \/ \E l \in ListenerIds : OnSessionUpdate(l)
    \/ \E l \in ListenerIds : Unsubscribe(l)
    \/ \E flag \in NewChatFlags : SubmitQuery({"chatgpt"}, flag)
    \/ \E q \in QueryIds : SubmitStep(q)
    \/ \E q \in QueryIds : LegStep(q, "chatgpt")
    \/ \E q \in HandedOutIds, t \in Texts :
          HandleResponseReceived(q, "chatgpt", t)
    \/ \E q \in HandedOutIds, e \in ErrorPayloads :
          HandleResponseError(q, "chatgpt", e)

SpecListeners == Init /\ [][NextListeners]_vars

(***************************************************************************)
(* Claims about the readiness wait and the session listeners               *)
(***************************************************************************)
ProbeUnanswered(q, p) == HasLeg(q, p) /\ Leg(q, p).pc = "pingHung"

GaveUp(q, p) ==
    /\ HasLeg(q, p) /\ Leg(q, p).pc \in {"done", "rejected"}
    /\ Leg(q, p).thrown = <<NotReadyError(p)>>

\* C26: a leg whose PING is never answered still gives up when the timeout
\* has passed, with the not-ready error for its provider.
C26_UnansweredProbeTimesOut ==
    \A q \in QueryIds, p \in Providers : ProbeUnanswered(q, p) ~> GaveUp(q, p)

Registered_(l) == l \in {sessionListeners[i] : i \in DOMAIN sessionListeners}

\* how often listener l was called with session q
CallsFor(l, q) == Cardinality({i \in DOMAIN listenerCalls[l] : listenerCalls[l][i] = q})

\* a one-provider session that succeeded and is over: one result message
\* was handled, the leg forwarded the query and settled
SucceededAndOver(q) ==
    /\ q \in DOMAIN activeSessions
    /\ activeSessions[q].providers = {"chatgpt"}
    /\ activeSessions[q].status = "completed"
    /\ msgCount = 1 /\ lastCall.kind = "RESPONSE_RECEIVED" /\ lastCall.known
    /\ HasLeg(q, "chatgpt")
    /\ Leg(q, "chatgpt").pc = "done" /\ Leg(q, "chatgpt").thrown = << >>

\* C27: a listener that was called for every notification of a session is
\* called once for its creation, once for each recorded response and once
\* for its terminal status: 3 calls for a one-provider session that
\* succeeded.
C27_ThreeCallsPerSuccessfulSession ==
    \A l \in ListenerIds : \A q \in DOMAIN activeSessions :
        (/\ Registered_(l)
         /\ sessionUpdates[q] > 0 /\ CallsFor(l, q) = sessionUpdates[q]
         /\ SucceededAndOver(q))
            => CallsFor(l, q) = 3

\* C28: a listener whose unsubscribe function was called is not called
\* again, and every listener that is and stays registered is called for
\* every notification.
C28_UnsubscribedListenerIsSilent ==
    [][/\ \A l \in unsubscribed : listenerCalls'[l] = listenerCalls[l]
       /\ \A q \in DOMAIN sessionUpdates : \A l \in ListenerIds :
             (Registered_(l) /\ l \notin unsubscribed')
                 => Len(listenerCalls'[l]) - Len(listenerCalls[l])
                        >= sessionUpdates'[q] - sessionUpdates[q]]_vars

(***************************************************************************)
(* TabManager: the address test of onTabUpdated                            *)
(***************************************************************************)
\* a pattern and an address are sequences of characters.  The characters of
\* the patterns of providers.ts are letters, ":", "/", "." and "*"; "c" and
\* "s" stand for the letters.  An address holds no line terminator.
PatternChars == {"c", "/", ".", "*"}
UrlChars == {"c", "s", "/", "."}

RECURSIVE SeqsUpTo(_, _)
SeqsUpTo(chars, n) ==
    IF n = 0 THEN {<< >>}
    ELSE LET shorter == SeqsUpTo(chars, n - 1)
         IN  shorter \cup {Append(w, ch) : w \in shorter, ch \in chars}

\* the patterns a provider can declare and the addresses a tab can show;
\* onTabUpdated returns early on an empty address
Patterns == SeqsUpTo(PatternChars, MaxPatternLen) \ {<< >>}
Urls == SeqsUpTo(UrlChars, MaxUrlLen) \ {<< >>}
PatternLists == UNION {[1..n -> Patterns] : n \in 1..MaxPatterns}

\* pattern.replace(/\*/g, '.*')
RECURSIVE ReplaceStars(_)
ReplaceStars(pattern) ==
    IF pattern = << >> THEN << >>
    ELSE (IF Head(pattern) = "*" THEN <<".", "*">> ELSE <<Head(pattern)>>)
             \o ReplaceStars(Tail(pattern))

\* '^' + pattern.replace(/\*/g, '.*') + '$'
RegexSource(pattern) == <<"^">> \o ReplaceStars(pattern) \o <<"$">>

\* new RegExp(source): the atoms between "^" and "$".  An atom is one
\* character of the source, "." being the wildcard of the regular
\* expression, with the quantifier "*" when that is the next character
RECURSIVE Atoms(_)
Atoms(src) ==
    IF src = << >> THEN << >>
    ELSE IF Len(src) >= 2 /\ src[2] = "*"
         THEN <<[ch |-> src[1], any |-> src[1] = ".", star |-> TRUE]>>
                  \o Atoms(SubSeq(src, 3, Len(src)))
         ELSE <<[ch |-> src[1], any |-> src[1] = ".", star |-> FALSE]>>
                  \o Atoms(Tail(src))

RegExp(source) == Atoms(SubSeq(source, 2, Len(source) - 1))

Accepts(atom, ch) == atom.any \/ atom.ch = ch

\* regex.test(url) for a regular expression anchored at both ends: the
\* atoms from i on match the address from j on to its end
RECURSIVE MatchFrom(_, _, _, _)
MatchFrom(atoms, i, url, j) ==
    IF i > Len(atoms) THEN j > Len(url)
    ELSE IF atoms[i].star
         THEN \/ MatchFrom(atoms, i + 1, url, j)
              \/ /\ j <= Len(url)
                 /\ Accepts(atoms[i], url[j])
                 /\ MatchFrom(atoms, i, url, j + 1)
         ELSE /\ j <= Len(url)
              /\ Accepts(atoms[i], url[j])
              /\ MatchFrom(atoms, i + 1, url, j + 1)

Test(pattern, url) == MatchFrom(RegExp(RegexSource(pattern)), 1, url, 1)

\* config.urlPatterns.some((pattern) => regex.test(tab.url))
IsMatch(patterns, url) == \E k \in DOMAIN patterns : Test(patterns[k], url)

\* the provider directory is static configuration: one provider with its
\* ordered list of patterns
InitPatterns ==
    /\ InitOrch /\ InitReg /\ InitAdapter /\ InitRouterVars
    /\ urlPatterns \in PatternLists
    /\ isMatch = << >>

\* onTabUpdated computes isMatch for the address of a completed tab
TestAddress(url) ==
    /\ Len(isMatch) < MaxTests
    /\ isMatch' = Append(isMatch, [url |-> url, result |-> IsMatch(urlPatterns, url)])
    /\ UNCHANGED <<urlPatterns, orchVars, regVars, adVars, routerVars>>

NextPatterns == \E url \in Urls : TestAddress(url)

SpecPatterns == InitPatterns /\ [][NextPatterns]_vars

(***************************************************************************)
(* Claims about the address test                                           *)
(***************************************************************************)
\* the pattern from i on equals the address from j on to its end when each
\* "*" stands for any substring and every other character for itself
RECURSIVE GlobFrom(_, _, _, _)
GlobFrom(pattern, i, url, j) ==
    IF i > Len(pattern) THEN j > Len(url)
    ELSE IF pattern[i] = "*"
         THEN \E k \in j..(Len(url) + 1) : GlobFrom(pattern, i + 1, url, k)
         ELSE /\ j <= Len(url)
              /\ pattern[i] = url[j]
              /\ GlobFrom(pattern, i + 1, url, j + 1)

GlobMatches(patterns, url) ==
    \E k \in DOMAIN patterns : GlobFrom(patterns[k], 1, url, 1)

\* C29: an address matches the provider iff some pattern of the provider
\* equals the whole address when each * stands for any substring and every
\* other pattern character matches only itself.
C29_MatchIsAnchoredGlob ==
    \A n \in DOMAIN isMatch :
        isMatch[n].result = GlobMatches(urlPatterns, isMatch[n].url)

(***************************************************************************)
(* Claims about concurrent rating saves                                    *)
(***************************************************************************)
SaveHandlers == {m \in DOMAIN inbox : inbox[m].msg.type = "SAVE_RATING"}

\* the save replied with success
Saved(m) == inbox[m].pc = "done" /\ inbox[m].replies = <<SuccessReply>>

\* the list the save built holds its own rating only: it read the empty
\* list, so it read before any save wrote
ReadBeforeAnyWrite(m) == Len(inbox[m].local.ratings) = 1

\* two saves of ratings for different providers, the only saves, both read
\* before either wrote and both replied with success
RacedSaves(m1, m2) ==
    /\ m1 # m2
    /\ SaveHandlers = {m1, m2}
    /\ inbox[m1].msg.providerId # inbox[m2].msg.providerId
    /\ Saved(m1) /\ Saved(m2)
    /\ ReadBeforeAnyWrite(m1) /\ ReadBeforeAnyWrite(m2)

\* C30: two concurrent rating saves that both read ratings and stats before
\* either writes lose an update: of the two ratings for two providers one
\* is missing from the stored list, or one increment is missing from the
\* stored counter of ratings.
C30_RacingSavesLoseAnUpdate ==
    \A m1, m2 \in DOMAIN inbox :
        RacedSaves(m1, m2)
            => \/ Len(ratingStore.ratings) < 2
               \/ ratingStore.stats.totalRatings < 2

C30_Witness ==
    \E m1, m2 \in DOMAIN inbox :
        /\ RacedSaves(m1, m2)
        /\ Len(ratingStore.ratings) = 1
        /\ ratingStore.stats.totalRatings = 1

(***************************************************************************)
(* Claims about the registry under interleaving                            *)
(***************************************************************************)
\* nothing but ensureProviderTab calls acted: no lifecycle event was raised
\* and every open tab is one a call created and returned
OnlyEnsureActed ==
    /\ eventCount = 0
    /\ \A h \in TabIds :
           IsOpen(h) => \E c \in DOMAIN calls :
                            calls[c].created = 1 /\ calls[c].result = h

\* C31: ensureProviderTab(P, false) calls that start with no tracked and no
\* open tab for P, overlapping ones included, create at most one tab between
\* them and return the same handle.
C31_OverlappingEnsureCreatesOne ==
    \A c1, c2 \in DOMAIN calls :
        (/\ c1 # c2
         /\ calls[c1].provider = calls[c2].provider
         /\ calls[c1].pc = "returned" /\ calls[c2].pc = "returned"
         /\ OnlyEnsureActed)
            => /\ calls[c1].created + calls[c2].created <= 1
               /\ calls[c1].result = calls[c2].result

(***************************************************************************)
(* Claims about the completion of a session                                *)
(***************************************************************************)
\* the tasks of providers.map were launched and every one has settled
LaunchSettled(q) ==
    /\ q \in DOMAIN legs /\ DOMAIN legs[q] # {}
    /\ \A p \in DOMAIN legs[q] : legs[q][p].pc \in {"done", "rejected"}

\* C32: a session whose launch tasks have all settled and whose target
\* providers all have a response eventually has a terminal status.
C32_SettledSessionBecomesTerminal ==
    \A q \in QueryIds :
        (q \in Registered /\ LaunchSettled(q) /\ AllReceived(Session(q)))
            ~> (q \in Registered /\ Terminal(Session(q)))

(***************************************************************************)
(* TabManager: the registry after the tracked tab of a provider was closed *)
(***************************************************************************)
\* a provider's tab is tracked, as ensureProviderTab left it after creating
\* it or as a probe answered for it; the tab was closed and
\* chrome.tabs.onRemoved is raised but not yet dispatched
InitStale ==
    /\ InitOrch /\ InitAdapter /\ InitRouterVars /\ InitNoPatterns
    /\ \E p \in Providers, ready \in BOOLEAN :
           tabs = <<[providerId |-> p, tabId |-> 1, isReady |-> ready,
                     isLoggedIn |-> ready, obj |-> 0]>>
    /\ browser = [h \in TabIds |-> IF h = 1 THEN "closed" ELSE "none"]
    /\ calls = << >>
    /\ events = <<[kind |-> "removed", status |-> "", tabId |-> 1, url |-> ""]>>
    /\ pings = {}
    /\ eventCount = 1
    /\ lastReturn = NoReturn

SpecStale == InitStale /\ [][NextRegistry]_vars

\* C33: when the liveness check of ensureProviderTab fails, the entry of the
\* provider is removed only if it still holds the handle that was checked;
\* an entry installed for the provider while the call was suspended is kept.
C33_StaleRemovalRechecksEntry ==
    [][\A c \in DOMAIN calls :
          (calls[c].pc = "checkAlive" /\ calls'[c].pc = "query")
              => IF TrackedHandle(tabs, calls[c].provider) = calls[c].existing
                 THEN ~Tracked(tabs', calls[c].provider)
                 ELSE tabs' = tabs]_vars

(***************************************************************************)
(* Claims about the responses of a session                                 *)
(***************************************************************************)
\* the forwarding call of the leg of p fails in this step: the leg enters
\* its catch block
ForwardFails(q, p) ==
    /\ q \in DOMAIN legs /\ p \in DOMAIN legs[q]
    /\ legs[q][p].pc = "forward"
    /\ legs'[q][p].pc = "catchGet"

\* C34: when the forwarding call of a leg fails after a reply of its
\* provider was recorded for the query, the recorded reply and the status
\* of the session stay as they are.
C34_LegFailureKeepsRecordedReply ==
    [][\A q \in Registered : \A p \in Providers :
          (ForwardFails(q, p) /\ p \in DOMAIN Session(q).responses)
              => /\ activeSessions'[q].responses[p] = Session(q).responses[p]
                 /\ activeSessions'[q].status = Session(q).status]_vars

\* C35: the providers a session holds a response for are among its target
\* providers; a result message naming another provider adds no response and
\* does not set the status to error.
C35_ResponsesOfTargetsOnly ==
    \A q \in Registered :
        /\ DOMAIN Session(q).responses \subseteq Session(q).providers
        /\ Session(q).status = "error" => AnyTargetError(Session(q))

(***************************************************************************)
(* Claims about the entries of the registry                                *)
(***************************************************************************)
\* C36: no handle is tracked under two providers at the same time; when a
\* tab tracked for one provider completes a navigation to an address of
\* another, the entry of the first is removed as the second is installed.
C36_HandleTrackedOnce ==
    \A i, j \in DOMAIN tabs : i # j => tabs[i].tabId # tabs[j].tabId

\* C37: the answer to a PING changes the flags of the probed handle only;
\* when the entry of the provider holds another handle by the time the
\* answer arrives (or the provider has no entry), no entry changes.
C37_ProbeReplyUpdatesProbedHandle ==
    [][/\ \A pg \in pings :
              (pg \notin pings' /\ TrackedHandle(tabs, pg.providerId) # pg.tabId)
                  => tabs' = tabs
       /\ \A c \in DOMAIN calls :
              (/\ calls[c].pc = "ping" /\ calls'[c].pc \in Finished
               /\ TrackedHandle(tabs, calls[c].provider) # calls[c].tabId)
                  => tabs' = tabs]_vars

\* C38: a PROVIDER_STATUS_UPDATE whose sender is not the tracked tab of the
\* provider it names leaves the entries of the registry as they are.
C38_StatusUpdateFromTrackedTabOnly ==
    [][\A m \in DOMAIN inbox' :
          (/\ m \notin DOMAIN inbox
           /\ inbox'[m].msg.type = "PROVIDER_STATUS_UPDATE"
           /\ inbox'[m].msg.senderTab # TrackedHandle(tabs, inbox'[m].msg.providerId))
              => tabs' = tabs]_vars

(***************************************************************************)
(* QueryOrchestrator: result messages and their history writes, with a     *)
(* store whose calls all succeed                                           *)
(***************************************************************************)
\* a step of a saveResponseToHistory call a handler started
SaverStep == \E sv \in savers : SaverGet(sv) \/ SaverSet(sv)

NextPersist ==
    \/ \E ps \in TargetSets, flag \in NewChatFlags : SubmitQuery(ps, flag)
    \/ \E q \in QueryIds : SaveQueryGet(q) \/ SaveQuerySet(q) \/ SaveStatsGet(q)
                               \/ LaunchLegs(q)
    \/ \E q \in HandedOutIds, p \in Providers, t \in Texts :
           HandleResponseReceived(q, p, t)
    \/ \E q \in HandedOutIds, p \in Providers, e \in ErrorPayloads :
           HandleResponseError(q, p, e)
    \/ SaverStep

\* every storage call that was started resolves
SpecPersist == Init /\ [][NextPersist]_vars /\ WF_vars(SaverStep)

InHistory(r) == \E i \in DOMAIN storage.responses : storage.responses[i] = r

\* C39: the response a session holds for a provider is eventually in the
\* persisted list of responses, also when two results are recorded while
\* the history write of the first is still in flight.
C39_RecordedResponseIsPersisted ==
    \A q \in QueryIds, p \in Providers :
        (q \in Registered /\ p \in DOMAIN Session(q).responses)
            ~> (/\ q \in Registered /\ p \in DOMAIN Session(q).responses
                /\ InHistory(Session(q).responses[p]))

\* C40: a session with the status completed holds at least one response;
\* submitQuery with an empty list of providers gives no completed session.
C40_CompletedSessionHasResponses ==
    \A q \in Registered :
        Session(q).status = "completed" => DOMAIN Session(q).responses # {}

====
